---------------------------- MODULE Spec2Model ----------------------------
(***************************************************************************)
(* Pyrate scan orchestration core: the shared HTTP transport               *)
(* (pyrate/utils/http_client.py), the plugin registry                      *)
(* (pyrate/core/plugin_manager.py) and the scan orchestrator               *)
(* (pyrate/core/scanner.py).                                               *)
(***************************************************************************)
EXTENDS Integers, Sequences, FiniteSets, TLC

(***************************************************************************)
(* Bounds of the model.                                                    *)
(***************************************************************************)
\* largest number of ClientSession objects one HTTPClient makes
MaxSessions == 3
\* largest max_concurrent_requests explored
MaxPermits == 2
\* largest retry_attempts explored
MaxRetry == 2

\* plugin names that discovery can register
PluginNames == {"a", "b", "c"}

\* one asyncio task per active plugin; the same ids name the Transport callers
Tasks == 1..Cardinality(PluginNames)

\* delay_between_requests values explored (seconds; 0 switches the delay off)
DelayValues == {0, 1}
\* HTTP status codes a response can carry
StatusCodes == {200, 404, 500}

VARIABLES
    python,        \* the interpreter whose urllib.parse and asyncio.locks run
    config,        \* Config: scanner settings and plugin settings
    sem_value,     \* HTTPClient._semaphore: free permits
    sem_waiters,   \* HTTPClient._semaphore: FIFO of suspended acquirers
    sem_loop,      \* HTTPClient._semaphore: the event loop it is bound to
    req,           \* per caller: the position of its HTTPClient._request call
    session,       \* HTTPClient._session and every ClientSession made so far
    plugins,       \* PluginManager._plugins: registered names, insertion order
    phase,         \* position of Scanner.scan_async
    target,        \* scan_async argument
    requested,     \* scan_async argument `plugins` (None or a list)
    scan_result,   \* the ScanResult under construction / returned
    tasks,         \* per _run_plugin_async call: state, result, progress line
    error,         \* exception scan_async ended with, if any
    sources,       \* what discovery finds: the built-in package, the directories
    held,          \* PluginManager._plugins: name -> the plugin instance held
    registered,    \* the `self._plugins[name] = instance` made since the last clear
    load_raised,   \* whether the last _load_plugins let an exception out
    answer         \* the last PluginManager call: its argument and return value

vars == <<python, config, sem_value, sem_waiters, sem_loop, req, session, plugins,
          phase, target, requested, scan_result, tasks, error,
          sources, held, registered, load_raised, answer>>

transportVars == <<sem_value, sem_waiters, sem_loop, req, session>>
\* what the PluginManager owns besides the key order `plugins`
registryVars == <<sources, held, registered, load_raised, answer>>
scanVars == <<plugins, phase, target, requested, scan_result, tasks, error>>

(***************************************************************************)
(* Helpers                                                                 *)
(***************************************************************************)
RECURSIVE Pow2(_)
Pow2(n) == IF n = 0 THEN 1 ELSE 2 * Pow2(n - 1)

Range(s) == {s[i] : i \in 1..Len(s)}

(***************************************************************************)
(* Transport: HTTPClient._request                                          *)
(***************************************************************************)
NoResult == [kind |-> "none", status |-> 0]
ResponseResult(st) == [kind |-> "response", status |-> st]
ClientErrorResult == [kind |-> "ClientError", status |-> 0]
ExceptionResult == [kind |-> "Exception", status |-> 0]
\* the RuntimeError("... is bound to a different event loop") of the semaphore
LoopErrorResult == [kind |-> "RuntimeError", status |-> 0]

IdleRequest ==
    [pc |-> "idle", attempt |-> 0, outcomes |-> <<>>, backoff |-> 0,
     delayed |-> 0, result |-> NoResult]

\* self._session is None and no ClientSession has been made
NoSession == [ref |-> 0, made |-> <<>>]
\* `self._session and not self._session.closed`
SessionOpen == session.ref # 0 /\ ~session.made[session.ref].closed

\* mutant: start makes a new ClientSession whatever self._session is
StartedUnguarded ==
    [ref |-> Len(session.made) + 1,
     made |-> Append(session.made, [closed |-> FALSE])]

\* HTTPClient.start: return when a session is open, otherwise make a
\* ClientSession and keep it in self._session; no await in between
Started ==
    IF SessionOpen THEN session
    ELSE [ref |-> Len(session.made) + 1,
          made |-> Append(session.made, [closed |-> FALSE])]

\* `if not self._session: await self.start()`
EnsuredSession == IF session.ref = 0 THEN Started ELSE session

\* HTTPClient.close: close the session when there is an open one
Closed ==
    IF SessionOpen
    THEN [session EXCEPT !.made[session.ref].closed = TRUE]
    ELSE session

\* positions of _request inside `async with self._semaphore`
Holding == {"attempt", "backoff", "delay"}
Holders == {c \in Tasks : req[c].pc \in Holding}

\* mutant: the pool sized like the connector limit (max_concurrent_requests * 2)
SemaphoreInitDoubled == config.scanner.max_concurrent_requests * 2

\* asyncio.Semaphore(config.scanner.max_concurrent_requests)
SemaphoreInit == config.scanner.max_concurrent_requests

\* Semaphore.locked(): no free permit, or a waiter in the queue that is not
\* cancelled; a waiter that was woken stays in the queue until its task runs
SemLocked == sem_value = 0 \/ sem_waiters # <<>>

\* the semaphore as _wake_up_next reads and writes it: _value, and which
\* futures of _waiters are done (the callers at "woken")
Sem(value, r) == [value |-> value, req |-> r]

\* positions in queue q of the waiters whose future is not done
Pending(r, q) == {k \in 1..Len(q) : r[q[k]].pc = "waiting"}

\* Semaphore._wake_up_next: the first waiter whose future is not done gets a
\* permit (`self._value -= 1`) and its future the result; it stays queued
WakeUpNext(s, q) ==
    IF Pending(s.req, q) = {} THEN s
    ELSE LET k == CHOOSE i \in Pending(s.req, q) : \A j \in Pending(s.req, q) : i <= j
         IN  Sem(s.value - 1, [s.req EXCEPT ![q[k]].pc = "woken"])

\* `while self._value > 0: if not self._wake_up_next(): break`
RECURSIVE WakeUpAll(_, _)
WakeUpAll(s, q) ==
    IF s.value > 0 /\ Pending(s.req, q) # {}
    THEN WakeUpAll(WakeUpNext(s, q), q)
    ELSE s

\* the end of Semaphore.acquire for a waiter that was woken, with the queue q
\* it has left: Python 3.11 wakes one more waiter when a permit is free,
\* Python 3.12 and later wake as many as there are free permits
WakeUpAfterAcquire(s, q) ==
    IF python = "3.11"
    THEN IF s.value > 0 THEN WakeUpNext(s, q) ELSE s
    ELSE WakeUpAll(s, q)

\* range(self.config.scanner.retry_attempts + 1)
AttemptRange == 0..config.scanner.retry_attempts

\* mutant: off by one, `attempt <= retry_attempts`
ShouldRetryOffByOne(attempt) == attempt <= config.scanner.retry_attempts

\* `if attempt < self.config.scanner.retry_attempts`
ShouldRetry(attempt) == attempt < config.scanner.retry_attempts

\* mutant: `2 * attempt` instead of `2 ** attempt`
WaitTimeLinear(attempt) == 2 * attempt

\* `wait_time = 2 ** attempt`
WaitTime(attempt) == Pow2(attempt)

\* `if self.config.scanner.delay_between_requests > 0`
DelayApplies == config.scanner.delay_between_requests > 0

\* mutant: a suspended acquirer is put at the front of the queue
RequestLifo(c) ==
    /\ req[c].pc = "idle"
    /\ session' = EnsuredSession
    /\ IF ~SemLocked
       THEN /\ sem_value' = sem_value - 1
            /\ UNCHANGED <<sem_waiters, sem_loop>>
            /\ req' = [req EXCEPT ![c] = [IdleRequest EXCEPT !.pc = "attempt"]]
       ELSE IF sem_loop = "other"
       THEN /\ UNCHANGED <<sem_value, sem_waiters, sem_loop>>
            /\ req' = [req EXCEPT ![c] = [IdleRequest EXCEPT
                                              !.pc = "done", !.result = LoopErrorResult]]
       ELSE /\ sem_value' = sem_value
            /\ sem_loop' = "this"
            /\ sem_waiters' = <<c>> \o sem_waiters
            /\ req' = [req EXCEPT ![c] = [IdleRequest EXCEPT !.pc = "waiting"]]

\* entering `async with self._semaphore`: Semaphore.acquire takes a permit
\* when the semaphore is not locked; otherwise it has to wait on a future of
\* the running event loop: the first acquire that waits binds the semaphore
\* to its loop, and one that has to wait in another loop raises RuntimeError
\* (before any attempt, without a permit)
Request(c) ==
    /\ req[c].pc = "idle"
    /\ session' = EnsuredSession
    /\ IF ~SemLocked
       THEN /\ sem_value' = sem_value - 1
            /\ UNCHANGED <<sem_waiters, sem_loop>>
            /\ req' = [req EXCEPT ![c] = [IdleRequest EXCEPT !.pc = "attempt"]]
       ELSE IF sem_loop = "other"
       THEN /\ UNCHANGED <<sem_value, sem_waiters, sem_loop>>
            /\ req' = [req EXCEPT ![c] = [IdleRequest EXCEPT
                                              !.pc = "done", !.result = LoopErrorResult]]
       ELSE /\ sem_value' = sem_value
            /\ sem_loop' = "this"
            /\ sem_waiters' = Append(sem_waiters, c)
            /\ req' = [req EXCEPT ![c] = [IdleRequest EXCEPT !.pc = "waiting"]]

\* the task of a woken waiter runs again inside Semaphore.acquire: woken
\* waiters run in the order in which they were woken; `self._waiters.remove(fut)`,
\* the wake-up of further waiters, and the body of the `async with` begins
AcquireResume(c) ==
    /\ req[c].pc = "woken"
    /\ \A k \in 1..Len(sem_waiters) :
          req[sem_waiters[k]].pc = "woken" =>
             \E j \in 1..k : sem_waiters[j] = c
    /\ LET q == SelectSeq(sem_waiters, LAMBDA w : w # c)
           s == WakeUpAfterAcquire(Sem(sem_value, [req EXCEPT ![c].pc = "attempt"]), q)
       IN  /\ sem_waiters' = q
           /\ sem_value' = s.value
           /\ req' = s.req
    /\ UNCHANGED <<session, sem_loop>>

\* leaving `async with self._semaphore` with result res: Semaphore.release,
\* `self._value += 1` and _wake_up_next
Leave(c, r, res) ==
    LET finished == [r EXCEPT !.pc = "done", !.result = res]
        s == WakeUpNext(Sem(sem_value + 1, [req EXCEPT ![c] = finished]), sem_waiters)
    IN  /\ UNCHANGED <<session, sem_loop, sem_waiters>>
        /\ sem_value' = s.value
        /\ req' = s.req

\* mutant: a 5xx response is treated like a connection error and retried
AttemptResponseRetry5xx(c, st) ==
    /\ req[c].pc = "attempt"
    /\ req[c].attempt \in AttemptRange
    /\ LET r == [req[c] EXCEPT !.outcomes = Append(@, ResponseResult(st))]
       IN  IF st >= 500 /\ ShouldRetry(req[c].attempt)
           THEN /\ req' = [req EXCEPT ![c] = [r EXCEPT !.pc = "backoff"]]
                /\ UNCHANGED <<sem_value, sem_waiters, sem_loop, session>>
           ELSE IF DelayApplies
           THEN /\ req' = [req EXCEPT ![c] =
                              [r EXCEPT !.pc = "delay",
                                        !.result = ResponseResult(st)]]
                /\ UNCHANGED <<sem_value, sem_waiters, sem_loop, session>>
           ELSE Leave(c, r, ResponseResult(st))

\* the attempt's `session.request` + `response.read()` yields a response
AttemptResponse(c, st) ==
    /\ req[c].pc = "attempt"
    /\ req[c].attempt \in AttemptRange
    /\ LET r == [req[c] EXCEPT !.outcomes = Append(@, ResponseResult(st))]
       IN  IF DelayApplies
           THEN /\ req' = [req EXCEPT ![c] =
                              [r EXCEPT !.pc = "delay",
                                        !.result = ResponseResult(st)]]
                /\ UNCHANGED <<sem_value, sem_waiters, sem_loop, session>>
           ELSE Leave(c, r, ResponseResult(st))

\* `await asyncio.sleep(delay_between_requests)` is over: `return response`
DelayElapsed(c) ==
    /\ req[c].pc = "delay"
    /\ Leave(c, [req[c] EXCEPT !.delayed = config.scanner.delay_between_requests],
             req[c].result)

\* mutant: the final ClientError leaves the call without releasing the permit
AttemptClientErrorKeepsPermit(c) ==
    /\ req[c].pc = "attempt"
    /\ req[c].attempt \in AttemptRange
    /\ LET r == [req[c] EXCEPT !.outcomes = Append(@, ClientErrorResult)]
       IN  IF ShouldRetry(req[c].attempt)
           THEN req' = [req EXCEPT ![c] = [r EXCEPT !.pc = "backoff"]]
           ELSE req' = [req EXCEPT ![c] = [r EXCEPT !.pc = "done",
                                                    !.result = ClientErrorResult]]
    /\ UNCHANGED <<sem_value, sem_waiters, sem_loop, session>>

\* the attempt raises aiohttp ClientError
AttemptClientError(c) ==
    /\ req[c].pc = "attempt"
    /\ req[c].attempt \in AttemptRange
    /\ LET r == [req[c] EXCEPT !.outcomes = Append(@, ClientErrorResult)]
       IN  IF ShouldRetry(req[c].attempt)
           THEN /\ req' = [req EXCEPT ![c] = [r EXCEPT !.pc = "backoff"]]
                /\ UNCHANGED <<sem_value, sem_waiters, sem_loop, session>>
           ELSE Leave(c, r, ClientErrorResult)

\* `await asyncio.sleep(wait_time)` is over: next iteration of the for loop
BackoffElapsed(c) ==
    /\ req[c].pc = "backoff"
    /\ req' = [req EXCEPT ![c] =
                  [@ EXCEPT !.pc = "attempt",
                            !.backoff = @ + WaitTime(req[c].attempt),
                            !.attempt = @ + 1]]
    /\ UNCHANGED <<sem_value, sem_waiters, sem_loop, session>>

\* mutant: every exception is handled by the ClientError branch
AttemptExceptionRetried(c) ==
    /\ req[c].pc = "attempt"
    /\ req[c].attempt \in AttemptRange
    /\ LET r == [req[c] EXCEPT !.outcomes = Append(@, ExceptionResult)]
       IN  IF ShouldRetry(req[c].attempt)
           THEN /\ req' = [req EXCEPT ![c] = [r EXCEPT !.pc = "backoff"]]
                /\ UNCHANGED <<sem_value, sem_waiters, sem_loop, session>>
           ELSE Leave(c, r, ExceptionResult)

\* the attempt raises any other Exception: `raise`
AttemptException(c) ==
    /\ req[c].pc = "attempt"
    /\ req[c].attempt \in AttemptRange
    /\ Leave(c, [req[c] EXCEPT !.outcomes = Append(@, ExceptionResult)],
             ExceptionResult)

\* the caller has taken the result or the exception of its finished call
RequestReturn(c) ==
    /\ req[c].pc = "done"
    /\ req' = [req EXCEPT ![c] = IdleRequest]
    /\ UNCHANGED <<sem_value, sem_waiters, sem_loop, session>>

ScannerSettings ==
    [max_concurrent_requests : 1..MaxPermits,
     retry_attempts : 0..MaxRetry,
     delay_between_requests : DelayValues]

(***************************************************************************)
(* urllib.parse.urlparse, as far as scan_async reads it: scheme and netloc *)
(***************************************************************************)
Letters == {"a", "b", "c", "h", "l", "n", "o", "p", "r", "t", "u"}
Digits == {"1"}
\* urllib.parse.scheme_chars: letters, digits and "+-."
SchemeChars == Letters \cup Digits \cup {"+", "-", "."}

\* str.find: 1-based index of the first ch in s, 0 when absent
Find(s, ch) ==
    IF \E i \in 1..Len(s) : s[i] = ch
    THEN CHOOSE i \in 1..Len(s) : s[i] = ch /\ \A k \in 1..(i - 1) : s[k] # ch
    ELSE 0

\* urlsplit: a scheme is split off when the text before the first ":" is
\* non-empty, starts with a letter and consists of scheme characters
HasScheme(url) ==
    LET i == Find(url, ":")
    IN  /\ i > 1
        /\ url[1] \in Letters
        /\ \A k \in 1..(i - 1) : url[k] \in SchemeChars

UrlScheme(url) ==
    IF HasScheme(url) THEN SubSeq(url, 1, Find(url, ":") - 1) ELSE <<>>

AfterScheme(url) ==
    IF HasScheme(url) THEN SubSeq(url, Find(url, ":") + 1, Len(url)) ELSE url

\* _splitnetloc: after "//", up to the first of "/", "?", "#"
UrlNetloc(url) ==
    LET rest == AfterScheme(url)
    IN  IF Len(rest) >= 2 /\ rest[1] = "/" /\ rest[2] = "/"
        THEN LET body == SubSeq(rest, 3, Len(rest))
                 stops == {i \in 1..Len(body) : body[i] \in {"/", "?", "#"}}
                 stop == IF stops = {} THEN Len(body) + 1
                         ELSE CHOOSE i \in stops : \A k \in stops : i <= k
             IN  SubSeq(body, 1, stop - 1)
        ELSE <<>>

\* str.split(sep): the pieces of s between the occurrences of sep, piece k
\* from behind occurrence k - 1 to before occurrence k
Split(s, sep) ==
    LET seps == {i \in 1..Len(s) : s[i] = sep}
        Nth(k) == CHOOSE i \in seps : Cardinality({j \in seps : j < i}) = k - 1
        From(k) == IF k = 1 THEN 1 ELSE Nth(k - 1) + 1
        Upto(k) == IF k = Cardinality(seps) + 1 THEN Len(s) ELSE Nth(k) - 1
    IN  [k \in 1..(Cardinality(seps) + 1) |-> SubSeq(s, From(k), Upto(k))]

\* ipaddress._HEX_DIGITS and the decimal digits
HexDigits ==
    {"0", "1", "2", "3", "4", "5", "6", "7", "8", "9",
     "a", "b", "c", "d", "e", "f", "A", "B", "C", "D", "E", "F"}
DecimalDigits == {"0", "1", "2", "3", "4", "5", "6", "7", "8", "9"}

\* int(octet_str): the value of a string of decimal digits
DigitValue(ch) ==
    CASE ch = "0" -> 0 [] ch = "1" -> 1 [] ch = "2" -> 2 [] ch = "3" -> 3
      [] ch = "4" -> 4 [] ch = "5" -> 5 [] ch = "6" -> 6 [] ch = "7" -> 7
      [] ch = "8" -> 8 [] OTHER -> 9
RECURSIVE DecimalValue(_)
DecimalValue(str) ==
    IF str = <<>> THEN 0
    ELSE 10 * DecimalValue(SubSeq(str, 1, Len(str) - 1)) + DigitValue(str[Len(str)])

\* IPv4Address._parse_octet accepts the octet: decimal digits, at most three,
\* no leading zero, at most 255
IsOctet(str) ==
    /\ str # <<>>
    /\ \A i \in 1..Len(str) : str[i] \in DecimalDigits
    /\ Len(str) <= 3
    /\ ~(Len(str) > 1 /\ str[1] = "0")
    /\ DecimalValue(str) <= 255

\* ipaddress.IPv4Address(str) does not raise: four octets between dots
IsIPv4Address(str) ==
    LET octets == Split(str, ".")
    IN  /\ Len(octets) = 4
        /\ \A i \in 1..4 : IsOctet(octets[i])

\* IPv6Address._parse_hextet accepts the piece: one to four hex digits
IsHextet(str) ==
    /\ str # <<>>
    /\ Len(str) <= 4
    /\ \A i \in 1..Len(str) : str[i] \in HexDigits

\* IPv6Address._ip_int_from_string accepts the text: at least three pieces
\* between colons, an IPv4 tail counting for two, at most one "::", and as
\* many hextets as the eight of an address leave room for
IsIPv6Text(str) ==
    LET split == Split(str, ":")
        tail == split[Len(split)]
        dotted == "." \in Range(tail)
        \* the IPv4 tail is replaced by the two hextets it stands for
        parts == IF dotted
                 THEN SubSeq(split, 1, Len(split) - 1) \o << <<"0">>, <<"0">> >>
                 ELSE split
        n == Len(parts)
        inner == {i \in 2..(n - 1) : parts[i] = <<>>}
    IN  /\ str # <<>>
        /\ Len(split) >= 3
        /\ dotted => IsIPv4Address(tail)
        /\ n <= 9
        /\ Cardinality(inner) <= 1
        /\ IF inner # {}
           THEN LET skip == CHOOSE i \in inner : TRUE
                    hi == IF parts[1] = <<>> THEN skip - 2 ELSE skip - 1
                    lo == IF parts[n] = <<>> THEN n - skip - 1 ELSE n - skip
                IN  /\ parts[1] = <<>> => hi = 0
                    /\ parts[n] = <<>> => lo = 0
                    /\ 8 - (hi + lo) >= 1
                    /\ \A i \in 1..hi : IsHextet(parts[i])
                    /\ \A i \in (n - lo + 1)..n : IsHextet(parts[i])
           ELSE /\ n = 8
                /\ \A i \in 1..n : IsHextet(parts[i])

\* ipaddress.IPv6Address(str) does not raise: no "/", an optional "%scope"
\* that is not empty and holds no "%", and an address before it
IsIPv6Address(str) ==
    LET i == Find(str, "%")
        addr == IF i = 0 THEN str ELSE SubSeq(str, 1, i - 1)
        scope == IF i = 0 THEN <<>> ELSE SubSeq(str, i + 1, Len(str))
    IN  /\ "/" \notin Range(str)
        /\ i # 0 => scope # <<>> /\ "%" \notin Range(scope)
        /\ IsIPv6Text(addr)

\* re.match(r"\Av[a-fA-F0-9]+\..+\Z", hostname)
IsIPvFuture(hostname) ==
    /\ Len(hostname) >= 1 /\ hostname[1] = "v"
    /\ \E k \in 2..(Len(hostname) - 2) :
          /\ \A i \in 2..k : hostname[i] \in HexDigits
          /\ hostname[k + 1] = "."

\* netloc.rpartition('@')[2]: the text behind the last "@"
HostnameAndPort(netloc) ==
    LET ats == {i \in 1..Len(netloc) : netloc[i] = "@"}
    IN  IF ats = {} THEN netloc
        ELSE SubSeq(netloc, (CHOOSE i \in ats : \A k \in ats : k <= i) + 1, Len(netloc))

\* the hostname handed to _check_bracketed_host. Python 3.11 (urlsplit):
\* netloc.partition('[')[2].partition(']')[0]. Python 3.13
\* (_check_bracketed_netloc): the same of the text behind the last "@", and
\* that text up to its first ":" when it holds no "["
BracketedHost(netloc) ==
    LET text == IF python = "3.11" THEN netloc ELSE HostnameAndPort(netloc)
        open == Find(text, "[")
        after == SubSeq(text, open + 1, Len(text))
        close == Find(after, "]")
        colon == Find(text, ":")
    IN  IF open = 0
        THEN IF colon = 0 THEN text ELSE SubSeq(text, 1, colon - 1)
        ELSE IF close = 0 THEN after ELSE SubSeq(after, 1, close - 1)

\* urllib.parse._check_bracketed_host raises ValueError: the host in brackets
\* is neither an IPvFuture address nor an IPv6 address
CheckBracketedHostRaises(hostname) ==
    IF Len(hostname) >= 1 /\ hostname[1] = "v"
    THEN ~IsIPvFuture(hostname)
    ELSE ~IsIPv6Address(hostname)

\* urllib.parse._check_bracketed_netloc (Python 3.13) raises "Invalid IPv6
\* URL": text stands before the "[", or text other than ":port" behind the "]"
BracketMisplaced(netloc) ==
    LET text == HostnameAndPort(netloc)
        open == Find(text, "[")
        after == SubSeq(text, open + 1, Len(text))
        close == Find(after, "]")
        port == IF close = 0 THEN <<>> ELSE SubSeq(after, close + 1, Len(after))
    IN  /\ open # 0
        /\ \/ open > 1
           \/ port # <<>> /\ port[1] # ":"

\* urlsplit raises ValueError: "Invalid IPv6 URL" on an unbalanced bracket
\* and, from Python 3.13 on, on a misplaced one; the error of
\* _check_bracketed_host when both brackets are there
UrlParseRaises(url) ==
    LET netloc == UrlNetloc(url)
    IN  IF ("[" \in Range(netloc)) # ("]" \in Range(netloc)) THEN TRUE
        ELSE IF "[" \in Range(netloc)
        THEN \/ python # "3.11" /\ BracketMisplaced(netloc)
             \/ CheckBracketedHostRaises(BracketedHost(netloc))
        ELSE FALSE

\* mutant: `and` for `or` in the validity test (a scheme alone passes)
TargetRejectedAnd(url) ==
    UrlParseRaises(url) \/ (UrlScheme(url) = <<>> /\ UrlNetloc(url) = <<>>)

\* `if not parsed_url.scheme or not parsed_url.netloc: raise ValueError`
TargetRejected(url) ==
    UrlParseRaises(url) \/ UrlScheme(url) = <<>> \/ UrlNetloc(url) = <<>>

NotAUrl == <<"n", "o", "t", "-", "a", "-", "u", "r", "l">>
HttpA == <<"h", "t", "t", "p", ":", "/", "/", "a">>
BracketedLoopback == <<"a", ":", "/", "/", "[", ":", ":", "1", "]">>
\* the interpreters the program runs on
Pythons == {"3.11", "3.13"}
\* targets handed to scan
Targets ==
    { <<>>,                                   \* ""
      NotAUrl,                                \* "not-a-url"
      HttpA,                                  \* "http://a"
      <<"a", ":", "/", "/", "b", "/", "c">>,  \* "a://b/c"
      <<"/", "/", "a">>,                      \* "//a"
      <<"h", "t", "t", "p", ":">>,            \* "http:"
      <<"a", ":", "/", "/", "/", "b">>,       \* "a:///b"
      <<"1", ":", "/", "/", "a">>,            \* "1://a"
      <<"a", ":", "/", "/", "[">>,            \* "a://["
      <<"a", ":", "/", "/", "[", "b", "]">>,  \* "a://[b]"
      BracketedLoopback,                      \* "a://[::1]"
      <<"a", ":", "/", "/", "a", "[", ":", ":", "]">>,       \* "a://a[::]"
      <<"a", ":", "/", "/", "[", "b", "]", "@", "[", ":", ":", "]">> }  \* "a://[b]@[::]"

(***************************************************************************)
(* Plugin registry: PluginManager                                          *)
(***************************************************************************)
NoPluginSettings == [enabled_plugins |-> <<>>, disabled_plugins |-> <<>>]

\* a BasePlugin subclass found by discovery: `id` tells the classes (and the
\* instances made of them) apart, `name` is the plugin name of its instances,
\* `instantiates` is how `cls()` and `.name` end: "ok", with an "Exception",
\* or with a BaseException that is no Exception ("SystemExit")
PluginClass(id, name, instantiates) ==
    [id |-> id, name |-> name, instantiates |-> instantiates]

\* a *.py file of a plugin directory: `dunder` is whether its file name
\* starts with "__", `loads` is how exec_module ends ("ok", "Exception",
\* "SystemExit"), `classes` are its BasePlugin subclasses in dir(module) order
PluginFile(dunder, loads, classes) ==
    [dunder |-> dunder, loads |-> loads, classes |-> classes]

\* an entry of config.plugins.plugin_directories: `exists` is
\* exists() and is_dir(), `files` is glob("*.py") in the order it yields
PluginDirectory(exists, files) == [exists |-> exists, files |-> files]

\* `from ..plugins import builtin_plugins` and get_all_plugins(): `import` is
\* how the import ends ("ok", "ImportError", or another exception:
\* "RuntimeError"), `listing` is how get_all_plugins() ends ("ok",
\* "ImportError", or "RuntimeError" for every other exception, the
\* AttributeError of a module without get_all_plugins included)
NoBuiltins == [import |-> "ImportError", listing |-> "ok", classes |-> <<>>]
Builtins(classes) == [import |-> "ok", listing |-> "ok", classes |-> classes]

\* the registry as _load_plugins builds it: the dict's key order, its values,
\* the assignments made, and whether an exception got out
EmptyRegistry ==
    [order |-> <<>>, held |-> [n \in PluginNames |-> "None"],
     log |-> <<>>, raised |-> FALSE]

\* mutant: a name that is already registered keeps its plugin
RegisterFirstWins(R, cls) ==
    [R EXCEPT !.order = IF cls.name \in Range(@) THEN @ ELSE Append(@, cls.name),
              !.held[cls.name] = IF R.held[cls.name] = "None" THEN cls.id ELSE @,
              !.log = Append(@, cls)]

\* `self._plugins[plugin_instance.name] = plugin_instance`: a new key goes to
\* the end of the dict, an existing key keeps its place and gets the new value
Register(R, cls) ==
    [R EXCEPT !.order = IF cls.name \in Range(@) THEN @ ELSE Append(@, cls.name),
              !.held[cls.name] = cls.id,
              !.log = Append(@, cls)]

\* the inner try: instantiate and register, or log the failure and go on;
\* `except Exception` lets every other BaseException out
Instantiate(R, cls) ==
    IF R.raised THEN R
    ELSE CASE cls.instantiates = "ok" -> Register(R, cls)
           [] cls.instantiates = "Exception" -> R
           [] OTHER -> [R EXCEPT !.raised = TRUE]

\* the loop over the classes of one unit
RECURSIVE LoadClasses(_, _)
LoadClasses(R, classes) ==
    IF classes = <<>> THEN R
    ELSE LoadClasses(Instantiate(R, Head(classes)), Tail(classes))

\* PluginManager._load_builtin_plugins: `except ImportError` is the only
\* handler around the import and the get_all_plugins() call
LoadBuiltinPlugins(R, builtin) ==
    CASE builtin.import = "ImportError" -> R
      [] builtin.import # "ok" -> [R EXCEPT !.raised = TRUE]
      [] builtin.listing = "ImportError" -> R
      [] builtin.listing # "ok" -> [R EXCEPT !.raised = TRUE]
      [] OTHER -> LoadClasses(R, builtin.classes)

\* one round of the loop over glob("*.py"): skip "__" files; the outer try
\* logs a file that fails to load with an Exception and goes on, every other
\* BaseException leaves the loop
LoadFile(R, file) ==
    IF R.raised \/ file.dunder THEN R
    ELSE CASE file.loads = "ok" -> LoadClasses(R, file.classes)
           [] file.loads = "Exception" -> R
           [] OTHER -> [R EXCEPT !.raised = TRUE]

\* PluginManager._load_plugins_from_directory
RECURSIVE LoadPluginsFromDirectory(_, _)
LoadPluginsFromDirectory(R, files) ==
    IF files = <<>> THEN R
    ELSE LoadPluginsFromDirectory(LoadFile(R, Head(files)), Tail(files))

\* the loop over config.plugins.plugin_directories
RECURSIVE LoadDirectories(_, _)
LoadDirectories(R, dirs) ==
    IF dirs = <<>> THEN R
    ELSE LoadDirectories(
             IF Head(dirs).exists
             THEN LoadPluginsFromDirectory(R, Head(dirs).files)
             ELSE R,
             Tail(dirs))

\* PluginManager._load_plugins, started from registry R
LoadPlugins(R, src) ==
    LoadDirectories(LoadBuiltinPlugins(R, src.builtin), src.directories)

\* self._plugins.get(name): the instance held under the name, or None
GetPlugin(name) == IF name \in Range(plugins) THEN held[name] ELSE "None"

\* mutant: the held plugins in the order in which they were registered
ListPluginsInRegistrationOrder ==
    LET kept == SelectSeq(registered, LAMBDA cls : held[cls.name] = cls.id)
    IN  [i \in 1..Len(kept) |-> kept[i].id]

\* list(self._plugins.values())
ListPlugins == [i \in 1..Len(plugins) |-> held[plugins[i]]]

\* nothing to discover: no built-in package, no plugin directory
NoSources == [builtin |-> NoBuiltins, directories |-> <<>>]
\* the built-in class whose instances are named `name`
BuiltinClass(name) ==
    PluginClass(CASE name = "a" -> "builtin.A"
                  [] name = "b" -> "builtin.B"
                  [] OTHER -> "builtin.C",
                name, "ok")
\* only built-ins, one healthy class per name, in the order of `names`
BuiltinOnly(names) ==
    [builtin |-> Builtins([i \in 1..Len(names) |-> BuiltinClass(names[i])]),
     directories |-> <<>>]

\* the PluginManager holds registry R
RegistryIs(R) ==
    /\ plugins = R.order
    /\ held = R.held
    /\ registered = R.log
    /\ load_raised = R.raised

NoAnswer == [op |-> "none", arg |-> "None", value |-> "None", before |-> <<>>]

\* mutant: the allow-list wins over the disabled list
DisabledUnlessEnabled(name) ==
    /\ name \in Range(config.plugins.disabled_plugins)
    /\ name \notin Range(config.plugins.enabled_plugins)

\* `plugin_name not in self.config.plugins.disabled_plugins`, negated
Disabled(name) == name \in Range(config.plugins.disabled_plugins)
Enabled(name) == name \in Range(config.plugins.enabled_plugins)

\* mutant: the registry filtered by the requested names, in registry order
RequestedActiveInRegistryOrder(names) ==
    SelectSeq(plugins, LAMBDA name : name \in Range(names) /\ ~Disabled(name))

\* the loop over requested_plugins: found and not disabled, in request order
RECURSIVE RequestedActive(_)
RequestedActive(names) ==
    IF names = <<>> THEN <<>>
    ELSE LET name == Head(names)
             rest == RequestedActive(Tail(names))
         IN  IF GetPlugin(name) # "None" /\ ~Disabled(name)
             THEN <<name>> \o rest
             ELSE rest

\* mutant: the allow-list is not consulted
DefaultActiveIgnoresAllowList ==
    SelectSeq(plugins, LAMBDA name : ~Disabled(name))

\* the loop over self._plugins.values()
DefaultActive ==
    SelectSeq(plugins,
              LAMBDA name :
                  IF config.plugins.enabled_plugins # <<>>
                  THEN Enabled(name) /\ ~Disabled(name)
                  ELSE ~Disabled(name))

\* mutant: the requested plugins are filtered by the allow-list too
GetActivePluginsAllowListed(reqd) ==
    IF reqd.given /\ reqd.names # <<>>
    THEN SelectSeq(RequestedActive(reqd.names),
                   LAMBDA name : config.plugins.enabled_plugins = <<>> \/ Enabled(name))
    ELSE DefaultActive

\* PluginManager.get_active_plugins; `if requested_plugins:` is false for
\* None and for the empty list
GetActivePlugins(reqd) ==
    IF reqd.given /\ reqd.names # <<>>
    THEN RequestedActive(reqd.names)
    ELSE DefaultActive

(***************************************************************************)
(* Orchestrator: Scanner.scan_async                                        *)
(***************************************************************************)
\* strings that the code upper-cases or compares are sequences of characters
LowerCase == <<"a", "b", "c", "d", "e", "f", "g", "h", "i", "j", "k", "l", "m",
               "n", "o", "p", "q", "r", "s", "t", "u", "v", "w", "x", "y", "z">>
UpperCase == <<"A", "B", "C", "D", "E", "F", "G", "H", "I", "J", "K", "L", "M",
               "N", "O", "P", "Q", "R", "S", "T", "U", "V", "W", "X", "Y", "Z">>
\* ord(ch) for the ASCII letters
CodePoint(ch) ==
    IF Find(UpperCase, ch) > 0 THEN 64 + Find(UpperCase, ch)
    ELSE 96 + Find(LowerCase, ch)
\* str.upper
UpperChar(ch) == IF Find(LowerCase, ch) > 0 THEN UpperCase[Find(LowerCase, ch)] ELSE ch
Upper(str) == [i \in 1..Len(str) |-> UpperChar(str[i])]
\* str.__lt__: the first differing character decides, a proper prefix is less
RECURSIVE StrLess(_, _)
StrLess(s, t) ==
    IF t = <<>> THEN FALSE
    ELSE IF s = <<>> THEN TRUE
    ELSE IF Head(s) = Head(t) THEN StrLess(Tail(s), Tail(t))
    ELSE CodePoint(Head(s)) < CodePoint(Head(t))

CRITICAL == <<"C", "R", "I", "T", "I", "C", "A", "L">>
HIGH == <<"H", "I", "G", "H">>
MEDIUM == <<"M", "E", "D", "I", "U", "M">>
LOW == <<"L", "O", "W">>
INFO == <<"I", "N", "F", "O">>
\* the severities the Field description of Vulnerability.severity lists
Severities == {CRITICAL, HIGH, MEDIUM, LOW, INFO}

\* confidence is counted in tenths: 10 is 1.0
DefaultConfidence == 10
\* `confidence: float = Field(default=1.0, ge=0.0, le=1.0)`
ConfidenceValid(confidence) == 0 <= confidence /\ confidence <= 10

\* Vulnerability(...): pydantic validates the fields; title, severity and the
\* plugin fields are plain `str`, confidence is range-checked
ValidationError == [raised |-> "ValidationError"]
Vulnerability(title, severity, plugin_name, plugin_category, confidence) ==
    IF ~ConfidenceValid(confidence) THEN ValidationError
    ELSE [title |-> title, severity |-> severity, plugin_name |-> plugin_name,
          plugin_category |-> plugin_category, confidence |-> confidence]

\* BasePlugin.category of the plugin registered under `name`
PluginCategory(name) ==
    CASE name = "a" -> "Injection"
      [] name = "b" -> "XSS"
      [] OTHER -> "Information Disclosure"

\* the characters of a category name
CategoryText(category) ==
    CASE category = "Injection" -> <<"I", "n", "j", "e", "c", "t", "i", "o", "n">>
      [] category = "XSS" -> <<"X", "S", "S">>
      [] OTHER -> <<"I", "n", "f", "o", "r", "m", "a", "t", "i", "o", "n", " ",
                    "D", "i", "s", "c", "l", "o", "s", "u", "r", "e">>

\* BasePlugin.risk_level of the plugin registered under `name`
PluginRiskLevel(name) ==
    CASE name = "a" -> HIGH
      [] name = "b" -> <<"M", "e", "d", "i", "u", "m">>
      [] OTHER -> LOW

\* str.lower
LowerChar(ch) == IF Find(UpperCase, ch) > 0 THEN LowerCase[Find(UpperCase, ch)] ELSE ch
Lower(str) == [i \in 1..Len(str) |-> LowerChar(str[i])]

\* get_plugins_by_category: `plugin.category.lower() == category.lower()`
\* over self._plugins.values()
GetPluginsByCategory(category) ==
    SelectSeq(plugins,
              LAMBDA name : Lower(CategoryText(PluginCategory(name))) = Lower(category))

\* get_plugins_by_risk_level: `plugin.risk_level.upper() == risk_level.upper()`
GetPluginsByRiskLevel(risk_level) ==
    SelectSeq(plugins,
              LAMBDA name : Upper(PluginRiskLevel(name)) = Upper(risk_level))

\* BasePlugin.create_vulnerability on the plugin named `name`
CreateVulnerability(name, title, severity) ==
    Vulnerability(title, severity, name, PluginCategory(name), DefaultConfidence)

(***************************************************************************)
(* ScanResult: the sort and the derived queries                            *)
(***************************************************************************)
\* mutant: LOW ranks before MEDIUM
SeverityOrderLowFirst(severity) ==
    CASE severity = CRITICAL -> 0
      [] severity = HIGH -> 1
      [] severity = LOW -> 2
      [] severity = MEDIUM -> 3
      [] severity = INFO -> 4
      [] OTHER -> 5

\* `severity_order.get(v.severity, 5)`
SeverityOrder(severity) ==
    CASE severity = CRITICAL -> 0
      [] severity = HIGH -> 1
      [] severity = MEDIUM -> 2
      [] severity = LOW -> 3
      [] severity = INFO -> 4
      [] OTHER -> 5

\* the sort key (rank, title) of v is less than that of w: tuple comparison
KeyLess(v, w) ==
    \/ SeverityOrder(v.severity) < SeverityOrder(w.severity)
    \/ /\ SeverityOrder(v.severity) = SeverityOrder(w.severity)
       /\ StrLess(v.title, w.title)

\* mutant: an element goes in front of the elements with an equal key
InsertBeforeEqual(sorted, v) ==
    LET k == Cardinality({i \in 1..Len(sorted) : KeyLess(sorted[i], v)})
    IN  SubSeq(sorted, 1, k) \o <<v>> \o SubSeq(sorted, k + 1, Len(sorted))

\* list.sort is stable: an element goes behind every element whose key is
\* not greater
Insert(sorted, v) ==
    LET k == Cardinality({i \in 1..Len(sorted) : ~KeyLess(v, sorted[i])})
    IN  SubSeq(sorted, 1, k) \o <<v>> \o SubSeq(sorted, k + 1, Len(sorted))

RECURSIVE SortInto(_, _)
SortInto(sorted, rest) ==
    IF rest = <<>> THEN sorted
    ELSE SortInto(Insert(sorted, Head(rest)), Tail(rest))

\* mutant: only the first element is put in its place
SortedFirstOnly(vs) ==
    IF vs = <<>> THEN vs ELSE Insert(Tail(vs), Head(vs))

\* `self.vulnerabilities.sort(key=lambda v: (rank, v.title))`
SortedBySeverity(vs) == SortInto(<<>>, vs)

\* `[v for v in self.vulnerabilities if v.severity == severity.upper()]`
BySeverity(vs, severity) ==
    SelectSeq(vs, LAMBDA v : v.severity = Upper(severity))

\* `[v for v in self.vulnerabilities if v.plugin_name == plugin_name]`
ByPlugin(vs, plugin_name) ==
    SelectSeq(vs, LAMBDA v : v.plugin_name = plugin_name)

\* `len([v for v in self.vulnerabilities if v.severity == "..."])`
SeverityCount(vs, severity) ==
    Len(SelectSeq(vs, LAMBDA v : v.severity = severity))

\* severity_breakdown and total_vulnerabilities
SeverityBreakdown(vs) ==
    [CRITICAL |-> SeverityCount(vs, CRITICAL), HIGH |-> SeverityCount(vs, HIGH),
     MEDIUM |-> SeverityCount(vs, MEDIUM), LOW |-> SeverityCount(vs, LOW),
     INFO |-> SeverityCount(vs, INFO)]
TotalVulnerabilities(vs) == Len(vs)

\* the lists a run of plugin `name` makes through self.create_vulnerability:
\* nothing, or two findings
CreatedOutputs(name) ==
    { <<>>,
      <<CreateVulnerability(name, <<"x">>, LOW),
        CreateVulnerability(name, <<"y">>, CRITICAL)>> }

\* what a run of plugin `name` can return: a list made with
\* create_vulnerability; plugin c can also return a finding that it built
\* itself with the Vulnerability constructor, under another name
RunOutputs(name) ==
    CreatedOutputs(name)
    \cup (IF name = "c"
          THEN { <<Vulnerability(<<"z">>, HIGH, "helper", "Test", 5)>> }
          ELSE {})

NoScanResult == [target |-> <<>>, vulnerabilities |-> <<>>, plugins_used |-> <<>>]
NoTask ==
    [state |-> "none", plugin |-> "None", result |-> <<>>,
     description |-> "", reports |-> <<>>]
NotRequested == [given |-> FALSE, names |-> <<>>]
\* the `plugins` arguments handed to scan: None and explicit lists
Requests ==
    {NotRequested} \cup
    {[given |-> TRUE, names |-> ns] :
        ns \in { <<>>, <<"a">>, <<"missing">>, <<"b">>, <<"b", "a">>,
                 <<"a", "a">>, <<"c", "missing">>, <<"a", "missing", "b">>,
                 <<"a", "b", "a">> }}

ScanIdle ==
    /\ phase = "NotStarted"
    /\ target = <<>>
    /\ requested = NotRequested
    /\ scan_result = NoScanResult
    /\ tasks = [t \in Tasks |-> NoTask]
    /\ error = "none"

\* scan_async(target, plugins) is called, through Scanner.scan or by a caller
\* that awaits it
ScanCall(t, p) ==
    /\ phase = "NotStarted"
    /\ phase' = "Validating"
    /\ target' = t
    /\ requested' = p
    /\ UNCHANGED <<registryVars, python, config, transportVars, plugins,
                   scan_result, tasks, error>>

\* `"plugins_used": plugins or []`
InitialPluginsUsed == IF requested.given THEN requested.names ELSE <<>>

\* ScanResult(target=..., timestamp=..., vulnerabilities=..., scan_info=...):
\* the pydantic model validates the fields it is given; `timestamp: datetime`
\* does not admit None, the default factory is used only when the field is
\* left out
ScanResult(t, timestamp, vs, used) ==
    IF timestamp = "None" THEN ValidationError
    ELSE [target |-> t, vulnerabilities |-> vs, plugins_used |-> used]

\* lines 57-71: urlparse, the validity test, the initial ScanResult, which
\* is constructed with `timestamp=None`: the constructor raises, and lines
\* 73-110 are never reached
Validate ==
    /\ phase = "Validating"
    /\ IF TargetRejected(target)
       THEN /\ phase' = "Failed"
            /\ error' = "ValueError"
            /\ UNCHANGED scan_result
       ELSE LET made == ScanResult(target, "None", <<>>, InitialPluginsUsed)
            IN  IF made = ValidationError
                THEN /\ phase' = "Failed"
                     /\ error' = "ValidationError"
                     /\ UNCHANGED scan_result
                ELSE /\ phase' = "Resolving"
                     /\ scan_result' = made
                     /\ UNCHANGED error
    /\ UNCHANGED <<registryVars, python, config, transportVars, plugins, target,
                   requested, tasks>>

\* the call is over: the caller of scan or scan_async has the exception
ScanReturn ==
    /\ phase \in {"Done", "Failed"}
    /\ phase' = "NotStarted"
    /\ target' = <<>>
    /\ requested' = NotRequested
    /\ scan_result' = NoScanResult
    /\ error' = "none"
    /\ UNCHANGED <<registryVars, python, config, transportVars, plugins, tasks>>

\* how a call of _run_plugin_async can be over
TerminalStates == {"returned", "raised", "cancelled", "exited"}

\* a caller awaits _run_plugin_async(plugin, target, progress, task_id) for a
\* held plugin and the progress line i it has made for it, "Running ...":
\* line 150 calls plugin.run_async
RunPluginAsync(i, name) ==
    /\ tasks[i].state = "none"
    /\ name \in Range(plugins)
    /\ tasks' = [tasks EXCEPT ![i] =
                    [NoTask EXCEPT !.state = "running", !.plugin = name,
                                   !.description = "Running"]]
    /\ UNCHANGED <<registryVars, python, config, transportVars, plugins, phase,
                   target, requested, scan_result, error>>

\* plugin.run_async returns: `progress.update(... completed)`, the list is
\* returned
TaskReturn(i, out) ==
    /\ tasks[i].state = "running"
    /\ tasks' = [tasks EXCEPT ![i] =
                    [@ EXCEPT !.state = "returned", !.result = out,
                              !.description = "completed",
                              !.reports = Append(@, "completed")]]
    /\ UNCHANGED <<registryVars, python, config, transportVars, plugins, phase,
                   target, requested, scan_result, error>>

\* plugin.run_async raises: `except Exception`, "failed", `return []`
TaskRaise(i) ==
    /\ tasks[i].state = "running"
    /\ tasks' = [tasks EXCEPT ![i] =
                    [@ EXCEPT !.state = "raised", !.result = <<>>,
                              !.description = "failed",
                              !.reports = Append(@, "failed")]]
    /\ UNCHANGED <<registryVars, python, config, transportVars, plugins, phase,
                   target, requested, scan_result, error>>

\* plugin.run_async raises asyncio.CancelledError, which `except Exception`
\* does not catch: nothing is reported, the CancelledError leaves the wrapper
TaskRaiseCancelled(i) ==
    /\ tasks[i].state = "running"
    /\ tasks' = [tasks EXCEPT ![i] = [@ EXCEPT !.state = "cancelled"]]
    /\ UNCHANGED <<registryVars, python, config, transportVars, plugins, phase,
                   target, requested, scan_result, error>>

\* plugin.run_async raises SystemExit or KeyboardInterrupt, which `except
\* Exception` does not catch: nothing is reported, it leaves the wrapper
TaskRaiseExit(i) ==
    /\ tasks[i].state = "running"
    /\ tasks' = [tasks EXCEPT ![i] = [@ EXCEPT !.state = "exited"]]
    /\ UNCHANGED <<registryVars, python, config, transportVars, plugins, phase,
                   target, requested, scan_result, error>>

\* the caller has the list or the exception of the call and drops the
\* progress line
RunPluginEnd(i) ==
    /\ tasks[i].state \in TerminalStates
    /\ tasks' = [tasks EXCEPT ![i] = NoTask]
    /\ UNCHANGED <<registryVars, python, config, transportVars, plugins, phase,
                   target, requested, scan_result, error>>

\* BasePlugin.run, Scanner.scan: asyncio.run(...) is over and the event loop
\* it made is closed. A semaphore that an acquire of that loop had to wait
\* on stays bound to the loop that is gone
RunReturn ==
    /\ \A c \in Tasks : req[c].pc = "idle"
    /\ sem_loop = "this"
    /\ sem_loop' = "other"
    /\ UNCHANGED <<registryVars, python, config, sem_value, sem_waiters, req,
                   session, scanVars>>

\* HTTPClient.__init__ for every scanner configuration; callers share the client
InitTransport ==
    /\ python \in Pythons
    /\ config \in [scanner : ScannerSettings, plugins : {NoPluginSettings}]
    /\ sem_value = SemaphoreInit
    /\ sem_waiters = <<>>
    /\ sem_loop = "unbound"
    /\ req = [c \in Tasks |-> IdleRequest]
    /\ session = NoSession
    /\ sources = NoSources
    /\ RegistryIs(LoadPlugins(EmptyRegistry, sources))
    /\ answer = NoAnswer
    /\ ScanIdle

NextTransport ==
    \/ \E c \in Tasks : Request(c) /\ UNCHANGED <<registryVars, python, config, scanVars>>
    \/ \E c \in Tasks : AcquireResume(c) /\ UNCHANGED <<registryVars, python, config, scanVars>>
    \/ \E c \in Tasks, st \in StatusCodes :
          AttemptResponse(c, st) /\ UNCHANGED <<registryVars, python, config, scanVars>>
    \/ \E c \in Tasks : DelayElapsed(c) /\ UNCHANGED <<registryVars, python, config, scanVars>>
    \/ \E c \in Tasks : AttemptClientError(c) /\ UNCHANGED <<registryVars, python, config, scanVars>>
    \/ \E c \in Tasks : BackoffElapsed(c) /\ UNCHANGED <<registryVars, python, config, scanVars>>
    \/ \E c \in Tasks : AttemptException(c) /\ UNCHANGED <<registryVars, python, config, scanVars>>
    \/ \E c \in Tasks : RequestReturn(c) /\ UNCHANGED <<registryVars, python, config, scanVars>>

SpecTransport == InitTransport /\ [][NextTransport]_vars

\* what the event loop does next for caller c's request: a woken acquire
\* runs on, the attempt ends, a sleep is over, the caller takes the result
TransportStep(c) ==
    /\ \/ AcquireResume(c)
       \/ \E st \in StatusCodes : AttemptResponse(c, st)
       \/ AttemptClientError(c)
       \/ AttemptException(c)
       \/ DelayElapsed(c)
       \/ BackoffElapsed(c)
       \/ RequestReturn(c)
    /\ UNCHANGED <<registryVars, python, config, scanVars>>

\* the Transport settings checked for progress: one permit with a retry and
\* a delay, two permits without
LiveScannerSettings ==
    { [max_concurrent_requests |-> 1, retry_attempts |-> 1,
       delay_between_requests |-> 1],
      [max_concurrent_requests |-> 2, retry_attempts |-> 0,
       delay_between_requests |-> 0] }

\* the Transport with callers whose requests always proceed: every attempt
\* ends, every sleep is over after its time, every result is taken
InitTransportLive ==
    /\ InitTransport
    /\ config.scanner \in LiveScannerSettings

FairTransport == \A c \in Tasks : WF_vars(TransportStep(c))

SpecTransportLive == InitTransportLive /\ [][NextTransport]_vars /\ FairTransport

\* start() is called (also by __aenter__)
StartCall ==
    /\ Len(session.made) < MaxSessions \/ SessionOpen
    /\ session' = Started
    /\ answer' = [op |-> "start", arg |-> "None", value |-> "None",
                  before |-> session]
    /\ UNCHANGED <<python, config, sem_value, sem_waiters, sem_loop, req, scanVars,
                   sources, held, registered, load_raised>>

\* close() is called (also by __aexit__)
CloseCall ==
    /\ session' = Closed
    /\ answer' = [op |-> "close", arg |-> "None", value |-> "None",
                  before |-> session]
    /\ UNCHANGED <<python, config, sem_value, sem_waiters, sem_loop, req, scanVars,
                   sources, held, registered, load_raised>>

\* the Transport with its session, used from one event loop after another:
\* start, close and request calls in any order; an attempt can get a
\* response only while the session is open
InitSession == InitTransportLive

NextSession ==
    \/ StartCall
    \/ CloseCall
    \/ RunReturn
    \/ \E c \in Tasks : Request(c) /\ UNCHANGED <<registryVars, python, config, scanVars>>
    \/ \E c \in Tasks : AcquireResume(c) /\ UNCHANGED <<registryVars, python, config, scanVars>>
    \/ \E c \in Tasks, st \in StatusCodes :
          SessionOpen /\ AttemptResponse(c, st) /\ UNCHANGED <<registryVars, python, config, scanVars>>
    \/ \E c \in Tasks : DelayElapsed(c) /\ UNCHANGED <<registryVars, python, config, scanVars>>
    \/ \E c \in Tasks : AttemptClientError(c) /\ UNCHANGED <<registryVars, python, config, scanVars>>
    \/ \E c \in Tasks : BackoffElapsed(c) /\ UNCHANGED <<registryVars, python, config, scanVars>>
    \/ \E c \in Tasks : AttemptException(c) /\ UNCHANGED <<registryVars, python, config, scanVars>>
    \/ \E c \in Tasks : RequestReturn(c) /\ UNCHANGED <<registryVars, python, config, scanVars>>

SpecSession == InitSession /\ [][NextSession]_vars

\* the Transport settings the scans run under
ScanScannerSettings ==
    {[max_concurrent_requests |-> 1, retry_attempts |-> 1,
      delay_between_requests |-> 1]}
\* the plugin settings the scans run under
ScanPluginSettings ==
    { NoPluginSettings,
      [enabled_plugins |-> <<>>, disabled_plugins |-> <<"b">>],
      [enabled_plugins |-> <<"a", "b">>, disabled_plugins |-> <<"b">>] }
\* the registries the scans run against
Registries == { <<>>, <<"a", "b", "c">>, <<"b", "a">> }

\* Scanner.__init__: PluginManager(config), HTTPClient(config)
InitScan ==
    /\ python \in Pythons
    /\ config \in [scanner : ScanScannerSettings, plugins : ScanPluginSettings]
    /\ sem_value = SemaphoreInit
    /\ sem_waiters = <<>>
    /\ sem_loop = "unbound"
    /\ req = [c \in Tasks |-> IdleRequest]
    /\ session = NoSession
    /\ sources \in {BuiltinOnly(names) : names \in Registries}
    /\ RegistryIs(LoadPlugins(EmptyRegistry, sources))
    /\ answer = NoAnswer
    /\ ScanIdle

NextScan ==
    \/ \E t \in Targets, p \in Requests : ScanCall(t, p)
    \/ Validate
    \/ ScanReturn

SpecScan == InitScan /\ [][NextScan]_vars

\* the event loop runs every step that stays ready
FairScan ==
    /\ WF_vars(Validate)
    /\ WF_vars(ScanReturn)

\* the `plugins` arguments of the scans checked for termination
LiveRequests ==
    {NotRequested} \cup
    {[given |-> TRUE, names |-> ns] :
        ns \in { <<>>, <<"a">>, <<"missing">>, <<"b", "a">>, <<"a", "a">> }}

\* the targets of the scans checked for termination
LiveTargets ==
    { <<>>, NotAUrl, HttpA, <<"/", "/", "a">>, <<"a", ":", "/", "/", "[">> }

\* scans checked for termination: a registry of two plugins
InitScanLive ==
    /\ python \in Pythons
    /\ config \in [scanner : LiveScannerSettings, plugins : {NoPluginSettings}]
    /\ sem_value = SemaphoreInit
    /\ sem_waiters = <<>>
    /\ sem_loop = "unbound"
    /\ req = [c \in Tasks |-> IdleRequest]
    /\ session = NoSession
    /\ sources = BuiltinOnly(<<"a", "b">>)
    /\ RegistryIs(LoadPlugins(EmptyRegistry, sources))
    /\ answer = NoAnswer
    /\ ScanIdle

NextScanLive ==
    \/ \E t \in LiveTargets, p \in LiveRequests : ScanCall(t, p)
    \/ Validate
    \/ ScanReturn

SpecScanLive == InitScanLive /\ [][NextScanLive]_vars /\ FairScan

(***************************************************************************)
(* Scanner._run_plugin_async on its own: calls awaited by a caller, for    *)
(* the plugins the registry holds                                          *)
(***************************************************************************)
NextWrapper ==
    \/ \E i \in Tasks, name \in PluginNames : RunPluginAsync(i, name)
    \/ \E i \in Tasks : \E out \in RunOutputs(tasks[i].plugin) : TaskReturn(i, out)
    \/ \E i \in Tasks : TaskRaise(i)
    \/ \E i \in Tasks : TaskRaiseCancelled(i)
    \/ \E i \in Tasks : TaskRaiseExit(i)
    \/ \E i \in Tasks : RunPluginEnd(i)

SpecWrapper == InitScan /\ [][NextWrapper]_vars

(***************************************************************************)
(* The PluginManager on its own: discovery, reload and the queries         *)
(***************************************************************************)
\* length up to which every requested_plugins list is handed to
\* get_active_plugins
MaxRequested == 2

orchestratorVars == <<phase, target, requested, scan_result, tasks, error>>

\* built-ins a and b; a directory file defines another plugin named a
ShadowingSources ==
    [builtin |-> Builtins(<<BuiltinClass("a"), BuiltinClass("b")>>),
     directories |->
        <<PluginDirectory(TRUE,
            <<PluginFile(FALSE, "ok", <<PluginClass("ext.A", "a", "ok")>>)>>)>>]

\* the files of the faulty directory: one that fails to load, a "__" file,
\* and one whose second class fails to instantiate
BrokenFile == PluginFile(FALSE, "Exception", <<PluginClass("broken.A", "a", "ok")>>)
DunderFile == PluginFile(TRUE, "ok", <<PluginClass("dunder.C", "c", "ok")>>)
MixedFile ==
    PluginFile(FALSE, "ok",
               <<PluginClass("mixed.A", "a", "ok"),
                 PluginClass("mixed.Abstract", "c", "Exception"),
                 PluginClass("mixed.B", "b", "ok")>>)

\* a failing built-in class, a directory that does not exist, and the faulty
\* directory, its files in glob order `files`
FaultySources(files) ==
    [builtin |-> Builtins(<<PluginClass("builtin.A", "a", "Exception"),
                            BuiltinClass("b")>>),
     directories |->
        <<PluginDirectory(FALSE,
            <<PluginFile(FALSE, "ok", <<PluginClass("gone.C", "c", "ok")>>)>>),
          PluginDirectory(TRUE, files)>>]

\* no built-in package; two directories, the second redefines c
ExternalSources ==
    [builtin |-> NoBuiltins,
     directories |->
        <<PluginDirectory(TRUE,
            <<PluginFile(FALSE, "ok", <<PluginClass("one.P", "c", "ok"),
                                        PluginClass("one.Q", "a", "ok")>>)>>),
          PluginDirectory(TRUE,
            <<PluginFile(FALSE, "ok", <<PluginClass("two.P", "c", "ok")>>)>>)>>]

\* a directory with one healthy file that defines plugin c
HealthyDirectory ==
    PluginDirectory(TRUE, <<PluginFile(FALSE, "ok", <<PluginClass("good.C", "c", "ok")>>)>>)

\* a file that ends with sys.exit(...) when it is imported
ExitingFile == PluginFile(FALSE, "SystemExit", <<>>)

\* sources whose discovery meets a failure that no handler catches: a
\* built-in package that raises RuntimeError at import, one whose
\* get_all_plugins() raises, a built-in class whose constructor raises
\* SystemExit, a file that exits at import between two healthy files
RaisingSources ==
    { [builtin |-> [import |-> "RuntimeError", listing |-> "ok", classes |-> <<>>],
       directories |-> <<HealthyDirectory>>],
      [builtin |-> [import |-> "ok", listing |-> "RuntimeError",
                    classes |-> <<BuiltinClass("a")>>],
       directories |-> <<HealthyDirectory>>],
      [builtin |-> Builtins(<<BuiltinClass("b"),
                              PluginClass("builtin.A", "a", "SystemExit"),
                              BuiltinClass("c")>>),
       directories |-> <<>>],
      [builtin |-> NoBuiltins,
       directories |->
          <<PluginDirectory(TRUE,
              <<PluginFile(FALSE, "ok", <<PluginClass("first.A", "a", "ok")>>),
                ExitingFile,
                PluginFile(FALSE, "ok", <<PluginClass("last.B", "b", "ok")>>)>>)>>] }

\* what discovery can find when a PluginManager is built or reloaded
SourceSets ==
    { NoSources,
      BuiltinOnly(<<"a", "b", "c">>),
      BuiltinOnly(<<"b", "a">>),
      ShadowingSources,
      FaultySources(<<BrokenFile, DunderFile, MixedFile>>),
      FaultySources(<<MixedFile, BrokenFile>>),
      ExternalSources } \cup RaisingSources

\* enabled_plugins / disabled_plugins lists
NameLists == { <<>>, <<"a">>, <<"b">>, <<"a", "b">>, <<"c", "a">> }
RegistryPluginSettings ==
    [enabled_plugins : NameLists, disabled_plugins : NameLists]

\* the requested_plugins arguments: None, every list of up to MaxRequested
\* names, registered or not, and two longer lists
RequestableNames == PluginNames \cup {"missing"}
RegistryRequests ==
    {NotRequested} \cup
    {[given |-> TRUE, names |-> ns] :
        ns \in UNION {[1..k -> RequestableNames] : k \in 0..MaxRequested}
                \cup { <<"a", "missing", "b">>, <<"c", "b", "c", "a">> }}

\* the registry as a call finds it
Before == [order |-> plugins, held |-> held]

\* mutant: the lookup takes the plugin out of the registry (dict.pop)
CallGetPluginPops(name) ==
    /\ answer' = [op |-> "get_plugin", arg |-> name, value |-> GetPlugin(name),
                  before |-> Before]
    /\ plugins' = SelectSeq(plugins, LAMBDA n : n # name)
    /\ UNCHANGED <<python, config, transportVars, phase, target, requested,
                   scan_result, tasks, error, sources, held, registered,
                   load_raised>>

\* get_plugin(name) is called
CallGetPlugin(name) ==
    /\ answer' = [op |-> "get_plugin", arg |-> name, value |-> GetPlugin(name),
                  before |-> Before]
    /\ UNCHANGED <<python, config, transportVars, scanVars, sources, held, registered,
                   load_raised>>

\* list_plugins() is called
CallListPlugins ==
    /\ answer' = [op |-> "list_plugins", arg |-> "None", value |-> ListPlugins,
                  before |-> Before]
    /\ UNCHANGED <<python, config, transportVars, scanVars, sources, held, registered,
                   load_raised>>

\* get_active_plugins(requested_plugins) is called
CallGetActivePlugins(reqd) ==
    /\ answer' = [op |-> "get_active_plugins", arg |-> reqd,
                  value |-> GetActivePlugins(reqd), before |-> Before]
    /\ UNCHANGED <<python, config, transportVars, scanVars, sources, held, registered,
                   load_raised>>

\* mutant: reload without `self._plugins.clear()`
ReloadPluginsNoClear(src) ==
    /\ sources' = src
    /\ LET R == LoadPlugins([order |-> plugins, held |-> held,
                             log |-> registered, raised |-> FALSE], src)
       IN  /\ plugins' = R.order
           /\ held' = R.held
           /\ registered' = R.log
           /\ load_raised' = R.raised
    /\ answer' = [op |-> "reload_plugins", arg |-> "None", value |-> "None",
                  before |-> Before]
    /\ UNCHANGED <<python, config, transportVars, orchestratorVars>>

\* reload_plugins() is called when discovery finds `src`: clear, then
\* _load_plugins; when that raises, the call raises and the registry keeps
\* what was registered up to there
ReloadPlugins(src) ==
    /\ sources' = src
    /\ LET R == LoadPlugins(EmptyRegistry, src)
       IN  /\ plugins' = R.order
           /\ held' = R.held
           /\ registered' = R.log
           /\ load_raised' = R.raised
    /\ answer' = [op |-> "reload_plugins", arg |-> "None", value |-> "None",
                  before |-> Before]
    /\ UNCHANGED <<python, config, transportVars, orchestratorVars>>

\* PluginManager.__init__ for every plugin configuration and every plugin
\* source with which the constructor returns: when _load_plugins raises,
\* no PluginManager is made
InitRegistry ==
    /\ python \in Pythons
    /\ config \in [scanner : ScanScannerSettings, plugins : RegistryPluginSettings]
    /\ sem_value = SemaphoreInit
    /\ sem_waiters = <<>>
    /\ sem_loop = "unbound"
    /\ req = [c \in Tasks |-> IdleRequest]
    /\ session = NoSession
    /\ sources \in SourceSets
    /\ ~LoadPlugins(EmptyRegistry, sources).raised
    /\ RegistryIs(LoadPlugins(EmptyRegistry, sources))
    /\ answer = NoAnswer
    /\ ScanIdle

NextRegistry ==
    \/ \E name \in RequestableNames : CallGetPlugin(name)
    \/ CallListPlugins
    \/ \E reqd \in RegistryRequests : CallGetActivePlugins(reqd)
    \/ \E src \in SourceSets : ReloadPlugins(src)

SpecRegistry == InitRegistry /\ [][NextRegistry]_vars

\* the category and risk level arguments of the filter queries
CategoryArguments == { <<"x", "s", "s">> }
RiskLevelArguments == { <<"m", "e", "d", "i", "u", "m">> }
\* the `plugins` arguments of the scans and of get_active_plugins
FrameRequests == {NotRequested, [given |-> TRUE, names |-> <<"a", "missing">>]}

\* get_plugins_by_category(category) is called
CallGetPluginsByCategory(category) ==
    /\ answer' = [op |-> "get_plugins_by_category", arg |-> category,
                  value |-> GetPluginsByCategory(category), before |-> Before]
    /\ UNCHANGED <<python, config, transportVars, scanVars, sources, held, registered,
                   load_raised>>

\* get_plugins_by_risk_level(risk_level) is called
CallGetPluginsByRiskLevel(risk_level) ==
    /\ answer' = [op |-> "get_plugins_by_risk_level", arg |-> risk_level,
                  value |-> GetPluginsByRiskLevel(risk_level), before |-> Before]
    /\ UNCHANGED <<python, config, transportVars, scanVars, sources, held, registered,
                   load_raised>>

\* a Scanner in use: scans run, and between their steps the registry is
\* queried
FramePluginSettings ==
    { [enabled_plugins |-> <<"a", "b">>, disabled_plugins |-> <<>>] }

\* the plugin runs made next to the scans and queries: one at a time
FrameTasks == {1}

InitFrame ==
    /\ python \in Pythons
    /\ config \in [scanner : ScanScannerSettings, plugins : FramePluginSettings]
    /\ sem_value = SemaphoreInit
    /\ sem_waiters = <<>>
    /\ sem_loop = "unbound"
    /\ req = [c \in Tasks |-> IdleRequest]
    /\ session = NoSession
    /\ sources = BuiltinOnly(<<"b", "a">>)
    /\ RegistryIs(LoadPlugins(EmptyRegistry, sources))
    /\ answer = NoAnswer
    /\ ScanIdle

NextFrame ==
    \/ \E name \in {"a"} : CallGetPlugin(name)
    \/ CallListPlugins
    \/ \E reqd \in FrameRequests : CallGetActivePlugins(reqd)
    \/ \E category \in CategoryArguments : CallGetPluginsByCategory(category)
    \/ \E risk_level \in RiskLevelArguments : CallGetPluginsByRiskLevel(risk_level)
    \/ \E t \in Targets, p \in FrameRequests : ScanCall(t, p)
    \/ Validate
    \/ ScanReturn
    \/ \E i \in FrameTasks, name \in PluginNames : RunPluginAsync(i, name)
    \/ \E i \in FrameTasks : \E out \in RunOutputs(tasks[i].plugin) : TaskReturn(i, out)
    \/ \E i \in FrameTasks : TaskRaise(i)
    \/ \E i \in FrameTasks : TaskRaiseCancelled(i)
    \/ \E i \in FrameTasks : TaskRaiseExit(i)
    \/ \E i \in FrameTasks : RunPluginEnd(i)

SpecFrame == InitFrame /\ [][NextFrame]_vars

(***************************************************************************)
(* A ScanResult on its own: findings are added, sorted and queried         *)
(***************************************************************************)
\* most findings a ScanResult is given
MaxFindings == 3

\* severities outside the listed five that a caller can still pass
LowerHigh == <<"h", "i", "g", "h">>
Bogus == <<"B", "O", "G", "U", "S">>
\* the findings handed to add_vulnerability: two with the same rank and
\* title, titles that differ in case and length, and a finding that was not
\* made by create_vulnerability and has a lower-case severity
Findings ==
    { CreateVulnerability("a", <<"B">>, LOW),
      CreateVulnerability("a", <<"A">>, CRITICAL),
      CreateVulnerability("b", <<"A">>, CRITICAL),
      CreateVulnerability("b", <<"A", "b">>, CRITICAL),
      CreateVulnerability("b", <<"a">>, MEDIUM),
      CreateVulnerability("a", <<"B">>, HIGH),
      Vulnerability(<<"A">>, LowerHigh, "helper", "Test", 5) }
\* arguments of get_vulnerabilities_by_severity
SeverityArguments == {CRITICAL, HIGH, LowerHigh, <<"H", "i", "g", "h">>, Bogus}
\* arguments of get_vulnerabilities_by_plugin
PluginArguments == {"a", "helper", "missing"}
\* severity and confidence (in tenths) handed to the Vulnerability constructor
ConstructedSeverities == {CRITICAL, LowerHigh, Bogus}
ConstructedConfidences == {0 - 1, 5, 11}

resultFrame == <<python, config, transportVars, plugins, phase, target, requested,
                 tasks, error, sources, held,
                 registered, load_raised>>

\* Vulnerability(title="A", url=..., severity=..., plugin_name="a",
\* plugin_category="Injection", confidence=...) is evaluated
ConstructVulnerability(severity, confidence) ==
    /\ answer' = [op |-> "Vulnerability",
                  arg |-> [severity |-> severity, confidence |-> confidence],
                  value |-> Vulnerability(<<"A">>, severity, "a", "Injection",
                                          confidence),
                  before |-> scan_result]
    /\ UNCHANGED <<scan_result, resultFrame>>

\* add_vulnerability with insert(0, v) in place of append(v)
AddVulnerabilityFirst(v) ==
    /\ Len(scan_result.vulnerabilities) < MaxFindings
    /\ scan_result' = [scan_result EXCEPT !.vulnerabilities = <<v>> \o @]
    /\ answer' = [op |-> "add_vulnerability", arg |-> v, value |-> "None",
                  before |-> scan_result]
    /\ UNCHANGED resultFrame

\* add_vulnerability(v)
AddVulnerability(v) ==
    /\ Len(scan_result.vulnerabilities) < MaxFindings
    /\ scan_result' = [scan_result EXCEPT !.vulnerabilities = Append(@, v)]
    /\ answer' = [op |-> "add_vulnerability", arg |-> v, value |-> "None",
                  before |-> scan_result]
    /\ UNCHANGED resultFrame

\* sort_vulnerabilities_by_severity()
SortVulnerabilitiesBySeverity ==
    /\ scan_result' = [scan_result EXCEPT
                          !.vulnerabilities = SortedBySeverity(@)]
    /\ answer' = [op |-> "sort_vulnerabilities_by_severity", arg |-> "None",
                  value |-> "None", before |-> scan_result]
    /\ UNCHANGED resultFrame

\* get_vulnerabilities_by_severity(severity)
GetVulnerabilitiesBySeverity(severity) ==
    /\ answer' = [op |-> "get_vulnerabilities_by_severity", arg |-> severity,
                  value |-> BySeverity(scan_result.vulnerabilities, severity),
                  before |-> scan_result]
    /\ UNCHANGED <<scan_result, resultFrame>>

\* get_vulnerabilities_by_plugin(plugin_name)
GetVulnerabilitiesByPlugin(plugin_name) ==
    /\ answer' = [op |-> "get_vulnerabilities_by_plugin", arg |-> plugin_name,
                  value |-> ByPlugin(scan_result.vulnerabilities, plugin_name),
                  before |-> scan_result]
    /\ UNCHANGED <<scan_result, resultFrame>>

\* severity_breakdown and total_vulnerabilities are read
GetSeverityBreakdown ==
    /\ answer' = [op |-> "severity_breakdown", arg |-> "None",
                  value |-> [breakdown |-> SeverityBreakdown(scan_result.vulnerabilities),
                             total |-> TotalVulnerabilities(scan_result.vulnerabilities)],
                  before |-> scan_result]
    /\ UNCHANGED <<scan_result, resultFrame>>

\* ScanResult(target="http://a", scan_info={"plugins_used": ...})
InitResult ==
    /\ python \in Pythons
    /\ config \in [scanner : ScanScannerSettings, plugins : {NoPluginSettings}]
    /\ sem_value = SemaphoreInit
    /\ sem_waiters = <<>>
    /\ sem_loop = "unbound"
    /\ req = [c \in Tasks |-> IdleRequest]
    /\ session = NoSession
    /\ sources = NoSources
    /\ RegistryIs(LoadPlugins(EmptyRegistry, sources))
    /\ answer = NoAnswer
    /\ phase = "NotStarted"
    /\ target = <<>>
    /\ requested = NotRequested
    /\ tasks = [t \in Tasks |-> NoTask]
    /\ error = "none"
    /\ scan_result = [target |-> HttpA, vulnerabilities |-> <<>>,
                      plugins_used |-> <<"a", "b">>]

NextResult ==
    \/ \E severity \in ConstructedSeverities, confidence \in ConstructedConfidences :
          ConstructVulnerability(severity, confidence)
    \/ \E v \in Findings : AddVulnerability(v)
    \/ SortVulnerabilitiesBySeverity
    \/ \E severity \in SeverityArguments : GetVulnerabilitiesBySeverity(severity)
    \/ \E name \in PluginArguments : GetVulnerabilitiesByPlugin(name)
    \/ GetSeverityBreakdown

SpecResult == InitResult /\ [][NextResult]_vars

(***************************************************************************)
(* The connectivity probe: HTTPClient.test_connection                      *)
(***************************************************************************)
\* what _request would end with for the probed URL, were it awaited: a
\* response with some status, or an exception
ProbeOutcomes ==
    {[kind |-> "response", status |-> st] : st \in StatusCodes}
        \cup {[kind |-> "error", status |-> 0]}

\* `self.head(url)` and `self.get(url)`: calling an `async def` only makes a
\* coroutine object; `_request` runs when the coroutine is awaited
head(outcome) == [kind |-> "coroutine", method |-> "HEAD", awaits |-> outcome]
get(outcome) == [kind |-> "coroutine", method |-> "GET", awaits |-> outcome]

\* `async with obj as response`: a coroutine object has no __aenter__, so
\* the statement raises TypeError before its body; the coroutine is never
\* awaited
AsyncWith(obj) ==
    IF obj.kind = "response"
    THEN [raised |-> "none", response |-> obj]
    ELSE [raised |-> "TypeError", response |-> obj]

\* the body of test_connection: try HEAD, `except Exception` try GET,
\* `except Exception` return False
TestConnectionValue(head_outcome, get_outcome) ==
    LET first == AsyncWith(head(head_outcome))
        second == AsyncWith(get(get_outcome))
    IN  IF first.raised = "none" THEN first.response.status < 500
        ELSE IF second.raised = "none" THEN second.response.status < 500
        ELSE FALSE

\* test_connection(url) is called on a client whose target would answer the
\* HEAD with head_outcome and the GET with get_outcome
TestConnection(url, head_outcome, get_outcome) ==
    /\ answer' = [op |-> "test_connection",
                  arg |-> [url |-> url, head |-> head_outcome, get |-> get_outcome],
                  value |-> TestConnectionValue(head_outcome, get_outcome),
                  before |-> req]
    /\ UNCHANGED <<python, config, transportVars, scanVars, sources, held, registered,
                   load_raised>>

InitProbe == InitTransport

NextProbe ==
    \E url \in {HttpA}, head_outcome \in ProbeOutcomes, get_outcome \in ProbeOutcomes :
        TestConnection(url, head_outcome, get_outcome)

SpecProbe == InitProbe /\ [][NextProbe]_vars

(***************************************************************************)
(* Transport properties                                                    *)
(***************************************************************************)
MaxConcurrent == config.scanner.max_concurrent_requests
RetryAttempts == config.scanner.retry_attempts
NumAttempts(c) == Len(req[c].outcomes)
Finished(c) == req[c].pc = "done"
\* callers whose acquire was given a permit that they have not yet run with
Woken == {c \in Tasks : req[c].pc = "woken"}
\* callers a permit is taken for
Owners == Holders \cup Woken

\* C4: at every moment at most max_concurrent_requests request calls are
\* between acquiring and releasing a permit (attempts, backoff and delay
\* included); with max_concurrent_requests = 1 no two calls hold at once.
C4_PermitBound ==
    /\ Cardinality(Owners) <= MaxConcurrent
    /\ (MaxConcurrent = 1 => \A c, d \in Owners : c = d)

\* two calls are in progress on a one-permit Transport: one holds, one waits
C4_Witness ==
    /\ MaxConcurrent = 1
    /\ \E c, d \in Tasks :
          /\ c # d
          /\ req[c].pc = "backoff"
          /\ req[d].pc = "waiting"

\* C5: a request call makes at most retry_attempts + 1 attempts; an attempt
\* ending in ClientError is followed by another attempt unless it was attempt
\* number retry_attempts + 1, whose error propagates; the first response is
\* what the call returns and no attempt follows it.
C5_AttemptLimit ==
    \A c \in Tasks :
        LET r == req[c]
            n == Len(r.outcomes)
        IN  /\ n <= RetryAttempts + 1
            /\ \A i \in 1..(n - 1) : r.outcomes[i].kind = "ClientError"
            /\ r.pc = "attempt" => n = r.attempt /\ n <= RetryAttempts
            /\ r.pc = "backoff" =>
                  /\ r.outcomes[n].kind = "ClientError"
                  /\ n = r.attempt + 1
                  /\ n <= RetryAttempts
            /\ (n > 0 /\ r.outcomes[n].kind = "ClientError" /\ r.pc = "done") =>
                  /\ n = RetryAttempts + 1
                  /\ r.result = ClientErrorResult
            /\ (n > 0 /\ r.outcomes[n].kind = "response") =>
                  /\ r.pc \in {"delay", "done"}
                  /\ r.result = r.outcomes[n]

\* a call that used every attempt: retry_attempts = 2, three ClientErrors
C5_Witness ==
    \E c \in Tasks :
        /\ RetryAttempts = 2
        /\ Finished(c)
        /\ req[c].result = ClientErrorResult
        /\ NumAttempts(c) = 3

\* C6: the backoff waited before the retry after failed attempt a is 2^a, so
\* a call at attempt k has waited 2^k - 1 in total, a call that answered after
\* k failures returns after a total backoff of 2^k - 1, and nothing is waited
\* after the final failed attempt.
C6_BackoffTotal ==
    \A c \in Tasks :
        LET r == req[c]
            n == Len(r.outcomes)
        IN  /\ r.pc \in {"attempt", "backoff"} => r.backoff = Pow2(r.attempt) - 1
            /\ (r.pc \in {"delay", "done"} /\ n > 0) => r.backoff = Pow2(n - 1) - 1

\* two failures then a response: total backoff 2^0 + 2^1 = 3
C6_Witness ==
    \E c \in Tasks :
        /\ Finished(c)
        /\ req[c].result.kind = "response"
        /\ NumAttempts(c) = 3
        /\ req[c].backoff = 3

\* C7: a response with an HTTP error status (4xx, 5xx) is never retried: the
\* attempt that produced it is the call's last, and that response is the
\* call's result, whatever retry_attempts is.
C7_ErrorStatusNotRetried ==
    \A c \in Tasks :
        \A i \in 1..Len(req[c].outcomes) :
            (req[c].outcomes[i].kind = "response" /\ req[c].outcomes[i].status >= 400) =>
                /\ i = Len(req[c].outcomes)
                /\ req[c].pc \in {"delay", "done"}
                /\ req[c].result = req[c].outcomes[i]

\* a 500 on the first attempt is returned although two retries remain
C7_Witness ==
    \E c \in Tasks :
        /\ RetryAttempts = 2
        /\ Finished(c)
        /\ req[c].result = ResponseResult(500)
        /\ NumAttempts(c) = 1

\* C8: an attempt failing with an error other than ClientError ends the call
\* at once: it is the last attempt, no backoff follows it, no delay is waited,
\* the error is the call's outcome and the call no longer holds a permit.
C8_UnexpectedErrorPropagates ==
    \A c \in Tasks :
        \A i \in 1..Len(req[c].outcomes) :
            req[c].outcomes[i].kind = "Exception" =>
                /\ i = Len(req[c].outcomes)
                /\ req[c].pc = "done"
                /\ req[c].result = ExceptionResult
                /\ req[c].backoff = Pow2(i - 1) - 1
                /\ req[c].delayed = 0
                /\ c \notin Owners
                /\ sem_value + Cardinality(Owners) = MaxConcurrent

\* an unexpected error on the first attempt with two retries left
C8_Witness ==
    \E c \in Tasks :
        /\ RetryAttempts = 2
        /\ Finished(c)
        /\ req[c].result = ExceptionResult
        /\ NumAttempts(c) = 1

\* C9: with delay_between_requests > 0, every request call that ended with a
\* response or with the final connection failure has waited the
\* inter-request delay before releasing its permit.
C9_DelayBeforeRelease ==
    \A c \in Tasks :
        (Finished(c) /\ DelayApplies
            /\ req[c].result.kind \in {"response", "ClientError"}) =>
                req[c].delayed = config.scanner.delay_between_requests


(***************************************************************************)
(* Orchestrator properties                                                 *)
(***************************************************************************)
\* number of positions of seq holding x
Count(seq, x) == Cardinality({k \in 1..Len(seq) : seq[k] = x})

TransportUntouched ==
    /\ \A c \in Tasks : req[c] = IdleRequest
    /\ sem_value = MaxConcurrent
    /\ sem_waiters = <<>>

NothingLaunched == \A i \in Tasks : tasks[i] = NoTask

\* C1: whatever a plugin's run raises is caught at the task boundary: the
\* call that wraps the run lets no exception out, a run that raised counts
\* as an empty list, and a run that returned keeps the list it returned,
\* whatever the other runs did.
C1_FaultIsolation ==
    \A i \in Tasks :
        /\ tasks[i].state \notin {"cancelled", "exited"}
        /\ tasks[i].state = "raised" => tasks[i].result = <<>>
        /\ tasks[i].state = "returned" =>
              tasks[i].result \in RunOutputs(tasks[i].plugin)

\* the parsed target has no scheme or no authority
LacksSchemeOrAuthority(url) == UrlScheme(url) = <<>> \/ UrlNetloc(url) = <<>>

\* C2: a scan of a target whose parsed URL lacks a scheme or an authority
\* goes no further than validation; it fails with ValueError, and then no
\* ScanResult has been made (which comes before the active set is
\* resolved), no plugin run exists and the Transport has not been used.
C2_InvalidTargetFailsFirst ==
    (phase # "NotStarted" /\ LacksSchemeOrAuthority(target)) =>
        /\ phase \in {"Validating", "Failed"}
        /\ (phase = "Failed" => error = "ValueError")
        /\ scan_result = NoScanResult
        /\ NothingLaunched
        /\ TransportUntouched

\* scan("not-a-url") has failed on a scanner that has plugins to run
C2_Witness ==
    /\ phase = "Failed"
    /\ target = NotAUrl
    /\ error = "ValueError"
    /\ DefaultActive # <<>>

\* C3: a scan of a valid target whose active set is empty does not fail:
\* past validation it resolves the set and is done without error, with zero
\* findings and plugins_used = [], and no plugin task was created, no
\* Transport request issued, no permit taken.
C3_EmptyActiveSet ==
    (phase \notin {"NotStarted", "Validating"} /\ ~TargetRejected(target)
        /\ GetActivePlugins(requested) = <<>>) =>
        /\ phase \in {"Resolving", "Done"}
        /\ error = "none"
        /\ phase = "Done" =>
              /\ scan_result.target = target
              /\ scan_result.vulnerabilities = <<>>
              /\ scan_result.plugins_used = <<>>
        /\ NothingLaunched
        /\ TransportUntouched

\* C11: a scan of a valid target never raises: it ends Done with a
\* ScanResult for that target.
C11_ScanNeverRaises ==
    (phase # "NotStarted" /\ ~LacksSchemeOrAuthority(target)
        /\ ~UrlParseRaises(target)) =>
        /\ error = "none"
        /\ phase # "Failed"
        /\ phase = "Done" => scan_result.target = target

(***************************************************************************)
(* Registry properties                                                     *)
(***************************************************************************)
DisabledNames == Range(config.plugins.disabled_plugins)
EnabledNames == Range(config.plugins.enabled_plugins)
ActiveAnswer == answer.op = "get_active_plugins"
\* the position of registered name n in the registry order
RegistryIndex(n) == CHOOSE k \in 1..Len(plugins) : plugins[k] = n

\* C14: for a non-empty requested list, get_active_plugins returns the
\* requested entries that are registered and not disabled, one per such entry
\* and in the requested order; unknown and disabled names are skipped without
\* raising, so ["a", "missing", "b"] gives [a, b] when a and b are registered
\* and not disabled.
C14_RequestedActive ==
    (ActiveAnswer /\ answer.arg.given /\ answer.arg.names # <<>>) =>
        LET names == answer.arg.names
            keep == {i \in 1..Len(names) :
                        names[i] \in Range(plugins) /\ names[i] \notin DisabledNames}
        IN  /\ Len(answer.value) = Cardinality(keep)
            /\ \A i \in keep :
                  answer.value[Cardinality({j \in keep : j <= i})] = names[i]
            /\ (names = <<"a", "missing", "b">> /\ keep = {1, 3}) =>
                  answer.value = <<"a", "b">>

\* ["a", "missing", "b"] was requested from a registry holding a and b
C14_Witness ==
    /\ ActiveAnswer
    /\ answer.arg.given
    /\ answer.arg.names = <<"a", "missing", "b">>
    /\ {"a", "b"} \subseteq Range(plugins)
    /\ answer.value = <<"a", "b">>

\* C15: whatever the registry, the configuration and the requested list
\* (given or omitted), no plugin whose name is in the disabled list is in the
\* result of get_active_plugins, also when it is in the allow-list.
C15_DisabledOverrides ==
    ActiveAnswer =>
        \A k \in 1..Len(answer.value) : answer.value[k] \notin DisabledNames

\* a registered plugin is both in the allow-list and in the disabled list,
\* and is left out of the default active set
C15_Witness ==
    /\ ActiveAnswer
    /\ ~answer.arg.given
    /\ "a" \in Range(plugins) /\ "a" \in EnabledNames /\ "a" \in DisabledNames
    /\ "a" \notin Range(answer.value)
    /\ answer.value # <<>>

\* C16: with requested_plugins omitted, get_active_plugins returns, each once
\* and in registry order, the registered plugins that are not disabled and,
\* when the allow-list is non-empty, are in the allow-list.
C16_DefaultActive ==
    (ActiveAnswer /\ ~answer.arg.given) =>
        LET v == answer.value
        IN  /\ Range(v) =
                  {n \in Range(plugins) :
                      /\ n \notin DisabledNames
                      /\ EnabledNames # {} => n \in EnabledNames}
            /\ \A i, j \in 1..Len(v) :
                  i < j => RegistryIndex(v[i]) < RegistryIndex(v[j])

\* the allow-list [c, a] on the registry a, b, c gives a, c: registry order
C16_Witness ==
    /\ ActiveAnswer
    /\ ~answer.arg.given
    /\ plugins = <<"a", "b", "c">>
    /\ config.plugins.enabled_plugins = <<"c", "a">>
    /\ config.plugins.disabled_plugins = <<"b">>
    /\ answer.value = <<"a", "c">>

\* the registrations of name n made since the last clear, as positions
RegistrationsOf(n) == {k \in 1..Len(registered) : registered[k].name = n}
Last(S) == CHOOSE k \in S : \A m \in S : m <= k
First(S) == CHOOSE k \in S : \A m \in S : k <= m

\* C17: after discovery (built-ins, then directories) the registry holds at
\* most one plugin per name; get_plugin(name) is the plugin that the last
\* registration under that name registered, so a directory plugin shadows a
\* built-in of the same name; for a name never registered it is None.
C17_LastRegistrationWins ==
    /\ \A i, j \in 1..Len(plugins) : plugins[i] = plugins[j] => i = j
    /\ \A n \in RequestableNames :
          GetPlugin(n) = IF RegistrationsOf(n) = {} THEN "None"
                         ELSE registered[Last(RegistrationsOf(n))].id
    /\ answer.op = "get_plugin" =>
          answer.value = IF RegistrationsOf(answer.arg) = {} THEN "None"
                         ELSE registered[Last(RegistrationsOf(answer.arg))].id

\* built-in a, then built-in b, then directory plugin a: get_plugin("a") is
\* the directory plugin
C17_Witness ==
    /\ sources = ShadowingSources
    /\ Len(registered) = 3
    /\ registered[1].id = "builtin.A" /\ registered[3].id = "ext.A"
    /\ answer.op = "get_plugin"
    /\ answer.arg = "a"
    /\ answer.value = "ext.A"

\* the classes of the sources that load and instantiate: those of a built-in
\* package that imports, and those of the files, not named "__", that load
\* in a directory that exists
Loadable(src) ==
    {cls \in Range(src.builtin.classes) :
        /\ src.builtin.import = "ok" /\ src.builtin.listing = "ok"
        /\ cls.instantiates = "ok"}
    \cup UNION { UNION { {cls \in Range(file.classes) :
                            /\ ~file.dunder /\ file.loads = "ok"
                            /\ cls.instantiates = "ok"} :
                        file \in Range(dir.files) } :
                 dir \in {d \in Range(src.directories) : d.exists} }

\* C18: discovery does not raise when a unit fails to load or a class fails
\* to instantiate, and every class that loads and instantiates, whether in
\* the same unit, the same directory, a later directory or among the
\* built-ins, has been registered; nothing else has.
C18_DiscoveryIsFaultIsolated ==
    /\ ~load_raised
    /\ \A cls \in Loadable(sources) :
          cls \in Range(registered) /\ GetPlugin(cls.name) # "None"
    /\ Range(registered) \subseteq Loadable(sources)

\* C19: after reload_plugins the registry is what a fresh discovery of the
\* present sources yields: its names are those of the classes that load and
\* instantiate now, a name registered before the reload and not found by it
\* is gone, and a second reload of the same sources leaves the same names.
C19_ReloadIsFreshDiscovery ==
    /\ [](answer.op = "reload_plugins" =>
            /\ RegistryIs(LoadPlugins(EmptyRegistry, sources))
            /\ ~load_raised => Range(plugins) = {cls.name : cls \in Loadable(sources)}
            /\ ~load_raised => Range(registered) = Loadable(sources)
            /\ \A n \in Range(answer.before.order) :
                  n \notin {cls.name : cls \in Loadable(sources)} =>
                      GetPlugin(n) = "None")
    /\ [][(answer.op = "reload_plugins" /\ answer'.op = "reload_plugins"
               /\ sources' = sources) =>
             Range(plugins') = Range(plugins)]_vars

\* c was registered before the reload; the reload found only a and b
C19_Witness ==
    /\ answer.op = "reload_plugins"
    /\ "c" \in Range(answer.before.order)
    /\ sources = ShadowingSources
    /\ plugins = <<"a", "b">>
    /\ GetPlugin("c") = "None"

\* where in `registered` the instance `id` was registered
RegistrationOf(id) == CHOOSE k \in 1..Len(registered) : registered[k].id = id
\* list_plugins returned every held plugin, each once
ListsHeldOnce(v) ==
    /\ Range(v) = {held[n] : n \in Range(plugins)}
    /\ \A i, j \in 1..Len(v) : v[i] = v[j] => i = j

\* C20 as stated: list_plugins returns every held plugin once, in the order
\* in which these held plugins were registered, also after a registration
\* replaced an earlier plugin of the same name.
C20_ListInRegistrationOrder ==
    answer.op = "list_plugins" =>
        /\ ListsHeldOnce(answer.value)
        /\ \A i, j \in 1..Len(answer.value) :
              i < j => RegistrationOf(answer.value[i])
                           < RegistrationOf(answer.value[j])

\* C20 amended: list_plugins returns every held plugin once, in the order in
\* which their names were first registered: a plugin that replaced an earlier
\* one of the same name stands where the replaced one stood.
C20_ListInFirstRegistrationOrder ==
    answer.op = "list_plugins" =>
        /\ ListsHeldOnce(answer.value)
        /\ \A i, j \in 1..Len(answer.value) :
              i < j =>
                  First(RegistrationsOf(registered[RegistrationOf(answer.value[i])].name))
                    < First(RegistrationsOf(registered[RegistrationOf(answer.value[j])].name))

\* the directory plugin a replaced built-in a after built-in b was
\* registered, and is listed before b
C20_Witness ==
    /\ answer.op = "list_plugins"
    /\ sources = ShadowingSources
    /\ registered[2].id = "builtin.B" /\ registered[3].id = "ext.A"
    /\ answer.value = <<"ext.A", "builtin.B">>

(***************************************************************************)
(* ScanResult properties                                                   *)
(***************************************************************************)
Sorted == answer.op = "sort_vulnerabilities_by_severity"
\* the rank table of the sort as the contract states it
Rank(severity) ==
    IF severity = CRITICAL THEN 0
    ELSE IF severity = HIGH THEN 1
    ELSE IF severity = MEDIUM THEN 2
    ELSE IF severity = LOW THEN 3
    ELSE IF severity = INFO THEN 4
    ELSE 5
SeveritiesOf(vs) == [i \in 1..Len(vs) |-> vs[i].severity]
SameKey(v, w) == Rank(v.severity) = Rank(w.severity) /\ v.title = w.title

\* C21: after sort_vulnerabilities_by_severity the findings are in
\* non-decreasing order of the rank CRITICAL=0, HIGH=1, MEDIUM=2, LOW=3,
\* INFO=4, other=5, and findings of equal rank are in ascending title order;
\* severities [LOW, CRITICAL, MEDIUM] become [CRITICAL, MEDIUM, LOW].
C21_SortedByRankThenTitle ==
    Sorted =>
        LET vs == scan_result.vulnerabilities
        IN  /\ \A i, j \in 1..Len(vs) :
                  i < j =>
                      /\ Rank(vs[i].severity) <= Rank(vs[j].severity)
                      /\ Rank(vs[i].severity) = Rank(vs[j].severity) =>
                            ~StrLess(vs[j].title, vs[i].title)
            /\ SeveritiesOf(answer.before.vulnerabilities) = <<LOW, CRITICAL, MEDIUM>> =>
                  SeveritiesOf(vs) = <<CRITICAL, MEDIUM, LOW>>

\* [LOW, CRITICAL, MEDIUM] has been sorted
C21_Witness ==
    /\ Sorted
    /\ SeveritiesOf(answer.before.vulnerabilities) = <<LOW, CRITICAL, MEDIUM>>
    /\ SeveritiesOf(scan_result.vulnerabilities) = <<CRITICAL, MEDIUM, LOW>>

\* C22: sorting a sorted result again changes nothing: the sequence that
\* sort_vulnerabilities_by_severity has produced is a fixed point of the sort.
C22_SortIdempotent ==
    Sorted =>
        SortedBySeverity(scan_result.vulnerabilities) = scan_result.vulnerabilities

\* a sort that found three findings of different ranks and with a tie
\* already in sorted order, as a second sort does
C22_Witness ==
    /\ Sorted
    /\ answer.before.vulnerabilities = scan_result.vulnerabilities
    /\ SeveritiesOf(scan_result.vulnerabilities) = <<CRITICAL, CRITICAL, LowerHigh>>
    /\ scan_result.vulnerabilities[1].title = scan_result.vulnerabilities[2].title
    /\ scan_result.vulnerabilities[1] # scan_result.vulnerabilities[2]

\* C23: sort_vulnerabilities_by_severity only reorders: every finding occurs
\* as often as before, target and scan_info are as before, and the findings
\* of one rank and title are among themselves in the order they had before.
C23_SortOnlyReorders ==
    Sorted =>
        LET vs == scan_result.vulnerabilities
            old == answer.before.vulnerabilities
        IN  /\ Len(vs) = Len(old)
            /\ \A f \in Range(vs) \cup Range(old) : Count(vs, f) = Count(old, f)
            /\ scan_result.target = answer.before.target
            /\ scan_result.plugins_used = answer.before.plugins_used
            /\ \A f \in Range(old) :
                  SelectSeq(vs, LAMBDA v : SameKey(v, f))
                      = SelectSeq(old, LAMBDA v : SameKey(v, f))

\* the two CRITICAL findings titled "A" came as b's, then a LOW one, then
\* a's: sorted, b's is still in front of a's
C23_Witness ==
    /\ Sorted
    /\ answer.before.vulnerabilities =
          <<CreateVulnerability("b", <<"A">>, CRITICAL),
            CreateVulnerability("a", <<"B">>, LOW),
            CreateVulnerability("a", <<"A">>, CRITICAL)>>
    /\ scan_result.vulnerabilities =
          <<CreateVulnerability("b", <<"A">>, CRITICAL),
            CreateVulnerability("a", <<"A">>, CRITICAL),
            CreateVulnerability("a", <<"B">>, LOW)>>

\* C24: get_vulnerabilities_by_severity(s) returns, in result order, exactly
\* the findings whose severity equals s when letter case is ignored, and
\* leaves the result unchanged.
C24_FilterIgnoresCase ==
    answer.op = "get_vulnerabilities_by_severity" =>
        /\ answer.value =
              SelectSeq(scan_result.vulnerabilities,
                        LAMBDA v : Upper(v.severity) = Upper(answer.arg))
        /\ scan_result = answer.before

\* C25: every finding of a ScanResult has its severity among CRITICAL, HIGH,
\* MEDIUM, LOW, INFO and its confidence in [0.0, 1.0], and the Vulnerability
\* constructor rejects exactly the arguments outside either domain.
C25_FindingDomains ==
    /\ \A f \in Range(scan_result.vulnerabilities) :
          f.severity \in Severities /\ 0 <= f.confidence /\ f.confidence <= 10
    /\ answer.op = "Vulnerability" =>
          ((answer.value = ValidationError)
              <=> (answer.arg.severity \notin Severities
                      \/ answer.arg.confidence < 0 \/ answer.arg.confidence > 10))

\* C26: severity_breakdown gives for each of the five severities the number
\* of findings with exactly that severity, total_vulnerabilities is the
\* number of findings, and the five counts add up to total_vulnerabilities.
C26_CountsAddUp ==
    answer.op = "severity_breakdown" =>
        LET vs == scan_result.vulnerabilities
            n == answer.value.breakdown
            with(sev) == Cardinality({i \in 1..Len(vs) : vs[i].severity = sev})
        IN  /\ n.CRITICAL = with(CRITICAL)
            /\ n.HIGH = with(HIGH)
            /\ n.MEDIUM = with(MEDIUM)
            /\ n.LOW = with(LOW)
            /\ n.INFO = with(INFO)
            /\ answer.value.total = Len(vs)
            /\ n.CRITICAL + n.HIGH + n.MEDIUM + n.LOW + n.INFO = answer.value.total

\* the terminal status reports the observer has received for task i
Reports(i) == tasks[i].reports

\* C27: a plugin run is shown as running until it ends, then gets exactly
\* one terminal report, "completed" iff the run returned and "failed" iff it
\* raised; every call that is over has its one report, and there is no
\* report without a call.
C27_OneTerminalReport ==
    \A i \in Tasks :
        /\ Len(Reports(i)) <= 1
        /\ tasks[i].state = "none" => Reports(i) = <<>> /\ tasks[i].description = ""
        /\ tasks[i].state = "running" =>
              tasks[i].description = "Running" /\ Reports(i) = <<>>
        /\ (tasks[i].state = "returned") <=> (Reports(i) = <<"completed">>)
        /\ (tasks[i].state \in TerminalStates \ {"returned"})
              <=> (Reports(i) = <<"failed">>)
        /\ Reports(i) # <<>> => tasks[i].description = Reports(i)[1]

\* C28: test_connection returns a boolean and never raises: true when the
\* HEAD request yields a status below 500, false when it yields 500 or more;
\* when the HEAD request fails, the answer of the fallback GET decides in the
\* same way, and the result is false when both requests fail.
C28_ProbeReportsReachability ==
    answer.op = "test_connection" =>
        LET h == answer.arg.head
            g == answer.arg.get
        IN  /\ answer.value \in BOOLEAN
            /\ h.kind = "response" => (answer.value <=> h.status < 500)
            /\ (h.kind = "error" /\ g.kind = "response") =>
                  (answer.value <=> g.status < 500)
            /\ (h.kind = "error" /\ g.kind = "error") => answer.value = FALSE

\* the findings that the calls i, i + 1, ... have returned
RECURSIVE ReturnedFrom(_)
ReturnedFrom(i) ==
    IF i \notin Tasks THEN <<>> ELSE tasks[i].result \o ReturnedFrom(i + 1)
\* the findings the runs of plugin p have returned
RECURSIVE ReturnedBy(_, _)
ReturnedBy(p, i) ==
    IF i \notin Tasks THEN <<>>
    ELSE (IF tasks[i].plugin = p THEN tasks[i].result ELSE <<>>)
             \o ReturnedBy(p, i + 1)
ProducedBy(p) == ReturnedBy(p, 1)
FindingNames == PluginNames \cup {"helper", "missing"}

\* C29: every finding a plugin returned carries that plugin's name, so
\* get_vulnerabilities_by_plugin(p) picks from the returned findings exactly
\* what the runs of p returned.
C29_PluginNameIsProducer ==
    /\ \A i \in Tasks : \A f \in Range(tasks[i].result) :
          f.plugin_name = tasks[i].plugin
    /\ \A p \in FindingNames : ByPlugin(ReturnedFrom(1), p) = ProducedBy(p)

\* the phase changes of one scan, and the return that ends it
PhaseStep ==
    \/ phase = "NotStarted" /\ phase' = "Validating"
    \/ phase = "Validating" /\ phase' = "Failed"
          /\ TargetRejected(target) /\ error' = "ValueError"
    \/ phase = "Validating" /\ phase' = "Resolving" /\ ~TargetRejected(target)
    \/ phase = "Resolving" /\ phase' \in {"Running", "Done"}
    \/ phase = "Running" /\ phase' = "Aggregating"
    \/ phase = "Aggregating" /\ phase' = "Done"
    \/ phase \in {"Done", "Failed"} /\ phase' = "NotStarted" /\ ScanIdle'

\* C30: a scan changes phase only along NotStarted, Validating, then Failed
\* for a target that is rejected, or Resolving, Running, Aggregating, Done;
\* Done and Failed are left only by the scan's return.
C30_PhaseOrder ==
    [][phase' # phase => PhaseStep]_vars

\* C31: under fair scheduling, when every plugin run ends and every request
\* completes, a scan of a valid target reaches Done and returns, whether the
\* plugins are more than the permits or not.
C31_ScanTerminates ==
    /\ (phase = "Validating" /\ ~TargetRejected(target)) ~> (phase = "Done")
    /\ (phase = "Done") ~> (phase = "NotStarted")

\* request calls in progress: suspended on the pool, or holding a permit
InProgress == {c \in Tasks : req[c].pc \in {"waiting", "woken"} \cup Holding}

\* a permit is taken for caller c in this step: by its own acquire from the
\* pool, or for its queued acquire by a release or by an acquire that ends
Acquires(c) == c \notin Owners /\ c \in Owners'
\* caller c gives its permit up in this step
Releases(c) == c \in Owners /\ c \notin Owners'

\* C32: a request call takes one permit before its first attempt, keeps it
\* over all its attempts and backoff waits and gives it up exactly once when
\* it ends, by response, final ClientError or unexpected error; the free
\* permits plus the calls a permit is taken for are always
\* max_concurrent_requests, so with no call in progress every permit is free.
C32_PermitDiscipline ==
    /\ [](/\ sem_value >= 0
          /\ sem_value + Cardinality(Owners) = MaxConcurrent
          /\ InProgress = {} => sem_value = MaxConcurrent
          /\ \A c \in Tasks : req[c].pc \notin Holding => NumAttempts(c) = 0 \/ Finished(c))
    /\ [][/\ \A c \in Tasks :
              /\ Acquires(c) =>
                    \/ req[c].pc = "idle" /\ req'[c].pc = "attempt"
                    \/ req[c].pc = "waiting" /\ req'[c].pc = "woken"
              /\ (req[c].pc \notin Holding /\ req'[c].pc \in Holding) =>
                    /\ req[c].pc \in {"idle", "woken"}
                    /\ req'[c].pc = "attempt" /\ NumAttempts(c)' = 0
              /\ Releases(c) =>
                    /\ req[c].pc \in Holding
                    /\ Finished(c)'
                    /\ req'[c].result.kind \in {"response", "ClientError", "Exception"}
          /\ sem_value' - sem_value =
                Cardinality({c \in Tasks : Releases(c)})
                - Cardinality({c \in Tasks : Acquires(c)})]_vars

C32_Witness ==
    /\ InProgress = {}
    /\ sem_value = MaxConcurrent
    /\ \E c, d, e \in Tasks :
          /\ Finished(c) /\ req[c].result.kind = "ClientError" /\ NumAttempts(c) >= 2
          /\ Finished(d) /\ req[d].result.kind = "Exception"
          /\ Finished(e) /\ req[e].result.kind = "response"

\* C33: the queue of the permit pool holds exactly the suspended callers,
\* each once, in the order in which they were suspended, those already given
\* a permit before the others; a permit goes to the first caller in the
\* queue that has none, only the caller at the head leaves the queue,
\* nobody takes a permit from the pool while a caller is queued, and when
\* the calls holding permits always proceed every suspended caller
\* eventually begins its attempts.
C33_FifoNoStarvation ==
    /\ [](/\ Range(sem_waiters) = {c \in Tasks : req[c].pc \in {"waiting", "woken"}}
          /\ Cardinality(Range(sem_waiters)) = Len(sem_waiters)
          /\ \A k \in 1..Len(sem_waiters) :
                req[sem_waiters[k]].pc = "woken" =>
                   \A j \in 1..k : req[sem_waiters[j]].pc = "woken")
    /\ [][\A c \in Tasks :
            /\ (req[c].pc # "waiting" /\ req'[c].pc = "waiting") =>
                  sem_waiters' = Append(sem_waiters, c)
            /\ (req[c].pc = "waiting" /\ req'[c].pc # "waiting") =>
                  /\ req'[c].pc = "woken"
                  /\ \A k \in 1..Len(sem_waiters) :
                        req[sem_waiters[k]].pc = "waiting" =>
                           \E j \in 1..k : sem_waiters[j] = c
            /\ (req[c].pc = "woken" /\ req'[c].pc # "woken") =>
                  /\ c = Head(sem_waiters)
                  /\ sem_waiters' = Tail(sem_waiters)
                  /\ req'[c].pc = "attempt"
            /\ (req[c].pc = "idle" /\ req'[c].pc = "attempt") =>
                  sem_waiters = <<>>]_vars
    /\ \A c \in Tasks : (req[c].pc = "waiting") ~> (req[c].pc = "attempt")

\* a caller that was given a permit has not run yet and is still queued; a
\* permit is free, and the caller that came after it waits in the queue
C33_Witness ==
    /\ Len(sem_waiters) = 2
    /\ req[sem_waiters[1]].pc = "woken"
    /\ req[sem_waiters[2]].pc = "waiting"
    /\ sem_value = 1

\* no element occurs twice in the sequence
NoRepeats(seq) == \A i, j \in 1..Len(seq) : seq[i] = seq[j] => i = j

\* C34: the active set holds every plugin once, so that one run is made
\* per plugin and no name occurs twice in plugins_used, whatever list was
\* requested, also one that repeats a name.
C34_OneTaskPerPlugin ==
    ActiveAnswer => NoRepeats(answer.value)

\* C35: when a list of names is given, every active plugin is named in the
\* list; a given empty list makes the active set empty.
C35_OnlyRequestedRun ==
    (ActiveAnswer /\ answer.arg.given) =>
        /\ Range(answer.value) \subseteq Range(answer.arg.names)
        /\ answer.arg.names = <<>> => answer.value = <<>>

\* C36: for a non-empty requested list the result of get_active_plugins is
\* fixed by the list, the registry and the disabled list alone: every
\* requested name that is registered and not disabled is in it, in or out of
\* the allow-list, so it is the same under every enabled_plugins value.
C36_AllowListIgnoredForRequests ==
    (ActiveAnswer /\ answer.arg.given /\ answer.arg.names # <<>>) =>
        LET names == answer.arg.names
            Eligible(name) == name \in Range(plugins) /\ name \notin DisabledNames
        IN  /\ \A i \in 1..Len(names) :
                  Eligible(names[i]) => names[i] \in Range(answer.value)
            /\ answer.value = SelectSeq(names, Eligible)

\* a registered plugin outside a non-empty allow-list was requested
C36_Witness ==
    /\ ActiveAnswer
    /\ answer.arg.given
    /\ EnabledNames # {}
    /\ \E name \in Range(answer.arg.names) :
          /\ name \in Range(plugins)
          /\ name \notin EnabledNames
          /\ name \notin DisabledNames
          /\ name \in Range(answer.value)

\* the ClientSession objects that are open
OpenSessions == {k \in 1..Len(session.made) : ~session.made[k].closed}
\* the step is a call of the named operation
Called(op) == answer' # answer /\ answer'.op = op

\* C38: an HTTPClient never has two open sessions, and an open one is the
\* one kept in self._session; a session is made only when none is open, so
\* until the first close all first requests and start calls together make
\* exactly one; start with a session open and close without one change
\* nothing.
C38_OneSession ==
    /\ [](/\ Cardinality(OpenSessions) <= 1
          /\ OpenSessions \subseteq {session.ref}
          /\ session.ref = Len(session.made)
          /\ (\E c \in Tasks : req[c].pc # "idle") => session.ref # 0
          /\ (session.made # <<>> /\ OpenSessions = 1..Len(session.made)) =>
                Len(session.made) = 1)
    /\ [][/\ Len(session.made') > Len(session.made) =>
                /\ OpenSessions = {}
                /\ session'.made = Append(session.made, [closed |-> FALSE])
          /\ (Called("start") /\ SessionOpen) => session' = session
          /\ (Called("close") /\ ~SessionOpen) => session' = session
          /\ (Called("close") /\ SessionOpen) => OpenSessions' = {}]_vars

\* first requests and a start call found and kept one session; it is open
C38_Witness ==
    /\ answer.op = "start"
    /\ answer.before = session
    /\ Len(session.made) = 1
    /\ SessionOpen
    /\ Cardinality({c \in Tasks : req[c].pc # "idle"}) >= 2

\* C39: no query, no step of a scan and no plugin run, failing ones
\* included, changes the registry or the plugin configuration: the
\* registered names, their order, the instances held and the enabled and
\* disabled lists stay as discovery and construction left them, and each
\* query answers from that registry, get_active_plugins the same for the
\* same argument.
C39_QueriesAndScansKeepRegistry ==
    /\ [][/\ plugins' = plugins
          /\ held' = held
          /\ registered' = registered
          /\ config' = config]_vars
    /\ [](/\ RegistryIs(LoadPlugins(EmptyRegistry, sources))
          /\ answer.op # "none" => answer.before = Before
          /\ ActiveAnswer => answer.value = GetActivePlugins(answer.arg))

\* a scan is over, the run of a plugin has failed and the registry was
\* queried
C39_Witness ==
    /\ phase = "Failed"
    /\ error = "ValidationError"
    /\ \E i \in Tasks : tasks[i].state = "raised"
    /\ answer.op = "get_plugins_by_category"
    /\ answer.value = <<"b">>
    /\ plugins = <<"b", "a">>

\* an add_vulnerability call has just returned
Added == answer.op = "add_vulnerability"

\* C40: add_vulnerability only appends: the finding it was given is the last
\* of the sequence, total_vulnerabilities is one more than before, the findings
\* that were there are all still there at their positions, and target and
\* scan_info are as before.
C40_AppendOnly ==
    Added =>
        LET vs == scan_result.vulnerabilities
            old == answer.before.vulnerabilities
        IN  /\ TotalVulnerabilities(vs) = TotalVulnerabilities(old) + 1
            /\ vs[Len(vs)] = answer.arg
            /\ \A i \in 1..Len(old) : vs[i] = old[i]
            /\ scan_result.target = answer.before.target
            /\ scan_result.plugins_used = answer.before.plugins_used

\* a finding added to a result that held two different findings, the
\* second of which is not the one added
C40_Witness ==
    /\ Added
    /\ Len(answer.before.vulnerabilities) = 2
    /\ answer.before.vulnerabilities[1] # answer.before.vulnerabilities[2]
    /\ answer.arg # answer.before.vulnerabilities[2]
    /\ answer.arg = answer.before.vulnerabilities[1]

====
